---- MODULE Spec2Model ----
(***************************************************************************)
(* Model of the pull-request statistics client: the date-range resolution  *)
(* engine (DateRangeFactory, DateRange) and the paginated aggregation      *)
(* loops of PullRequestStatisticsService.                                  *)
(***************************************************************************)
EXTENDS Integers, Sequences, FiniteSets, TLC

VARIABLES
    today,      \* the reference date of the DateRangeFactory
    call,       \* the last direct call on the factory or on DateRange
    result,     \* what that call returned or raised
    operation,  \* the service operation in progress and its arguments
    status,     \* "idle", "running", "done" or "error"
    error,      \* class of the exception the operation raised, "" if none
    cursor,     \* the local variable cursor of the pagination loop
    total,      \* the local variable total of the counting loop
    yielded,    \* the records the enumeration has yielded so far
    requests,   \* the variables of every query_graphql call issued so far
    responses,  \* what the remote has returned: the pageInfo of each page of an
                \* enumeration or reviewed count, each response of the other calls
    served,     \* every entry of nodes the remote has returned, in order
    authored_count, \* the local variable authored_count of count_member_statistics
    statistics, \* the local variable statistics of count_member_statistics
    returned,   \* what the operation has returned to its caller
    page_size   \* the attribute _page_size of the service, None before construction

dateVars == <<today, call, result>>
memberVars == <<authored_count, statistics, returned>>
\* what a service operation leaves alone: the factory and the page size
fixedVars == <<today, call, result, page_size>>
serviceVars == <<operation, status, error, cursor, total, yielded, requests, responses, served,
                 authored_count, statistics, returned, page_size>>
vars == <<today, call, result, operation, status, error, cursor, total, yielded, requests,
          responses, served, authored_count, statistics, returned, page_size>>

(***************************************************************************)
(* Bounds of the model.                                                    *)
(***************************************************************************)
\* the reference "today" ranges over every day of the years
\* BaseYear + 1 .. BaseYear + NumTodayYears
BaseYear == 2023
NumTodayYears == 1
\* single days and direct DateRange bounds lie within MaxDayShift days of today
MaxDayShift == 1

\* the pagination loops are followed for at most MaxRequests requests (in
\* count_member_statistics: for each member)
MaxRequests == 3
\* a page of the remote carries at most MaxNodes entries
MaxNodes == 2
\* the result set of a search holds at most MaxServed entries over all pages
MaxServed == 4
\* a record of the review queries carries at most MaxReviews review edges
MaxReviews == 2
\* count_member_statistics is called with at most MaxMembers logins
MaxMembers == 2

\* datetime.MINYEAR, the bound _validate_year enforces
MinYear == 1

\* Python's None, for an optional integer argument or a null cursor
None == 0 - 1
\* a key that is missing from a response mapping
Absent == 0 - 2

TodayYears == (BaseYear + 1)..(BaseYear + NumTodayYears)
\* explicit years offered to the year-scoped operations: below the minimum,
\* the minimum, the past, the current years and the future
YearInputs == {MinYear - 1, MinYear} \cup (BaseYear..(BaseYear + NumTodayYears + 1))

(***************************************************************************)
(* datetime.date: calendar arithmetic                                      *)
(***************************************************************************)
Months == 1..12
Quarters == 1..4
Halves == 1..2

IsLeap(y) == (y % 4 = 0) /\ ((y % 100 # 0) \/ (y % 400 = 0))

\* calendar.monthrange(year, month)[1]
DaysInMonth(y, m) ==
    IF m = 2 THEN (IF IsLeap(y) THEN 29 ELSE 28)
    ELSE IF m \in {4, 6, 9, 11} THEN 30
    ELSE 31

date(y, m, d) == [year |-> y, month |-> m, day |-> d]

NoDate == date(0, 0, 0)

\* date.__lt__ / __le__ : ordering on (year, month, day)
DateLT(a, b) ==
    \/ a.year < b.year
    \/ a.year = b.year /\ a.month < b.month
    \/ a.year = b.year /\ a.month = b.month /\ a.day < b.day

DateLE(a, b) == a = b \/ DateLT(a, b)

\* date - timedelta(days=1)
PrevDay(d) ==
    IF d.day > 1 THEN date(d.year, d.month, d.day - 1)
    ELSE IF d.month > 1 THEN date(d.year, d.month - 1, DaysInMonth(d.year, d.month - 1))
    ELSE date(d.year - 1, 12, 31)

\* date + timedelta(days=1)
NextDay(d) ==
    IF d.day < DaysInMonth(d.year, d.month) THEN date(d.year, d.month, d.day + 1)
    ELSE IF d.month < 12 THEN date(d.year, d.month + 1, 1)
    ELSE date(d.year + 1, 1, 1)

RECURSIVE AddDays(_, _)
\* date + timedelta(days=n)
AddDays(d, n) ==
    IF n = 0 THEN d
    ELSE IF n > 0 THEN AddDays(NextDay(d), n - 1)
    ELSE AddDays(PrevDay(d), n + 1)

DatesOfYear(y) == UNION {{date(y, m, d) : d \in 1..DaysInMonth(y, m)} : m \in Months}

Todays == UNION {DatesOfYear(y) : y \in TodayYears}

(***************************************************************************)
(* DateRange: the inclusive interval value object                          *)
(***************************************************************************)
Range(s, e) == [kind |-> "range", start_date |-> s, end_date |-> e, message |-> ""]

\* a raised ValueError with its message
ValueError(msg) == [kind |-> "error", start_date |-> NoDate, end_date |-> NoDate, message |-> msg]

NoResult == [kind |-> "none", start_date |-> NoDate, end_date |-> NoDate, message |-> ""]


\* variant: the bounds are not validated
DateRange_unchecked(start, end) == Range(start, end)

\* DateRange.__post_init__
DateRange(start, end) ==
    IF DateLT(end, start)
    THEN ValueError("end_date must not be earlier than start_date.")
    ELSE Range(start, end)

(***************************************************************************)
(* DateRangeFactory                                                        *)
(***************************************************************************)
\* _resolve_today: the override if given, else the configured default or the
\* system date, which is the variable today
resolve_today(override) == IF override # NoDate THEN override ELSE today


\* variant: the current period itself is rolled back to the previous year
resolve_relative_year_rollsCurrent(target_period, current_period, current_year) ==
    IF target_period >= current_period THEN current_year - 1 ELSE current_year

resolve_relative_year(target_period, current_period, current_year) ==
    IF target_period > current_period THEN current_year - 1 ELSE current_year

quarter_start_date(quarter, year) == date(year, (quarter - 1) * 3 + 1, 1)

end_of_month(year, month) == date(year, month, DaysInMonth(year, month))

\* variant: every quarter ends on the 30th of its last month
quarter_end_date_thirtieth(quarter, year) ==
    date(year, quarter_start_date(quarter, year).month + 2, 30)

quarter_end_date(quarter, year) ==
    end_of_month(year, quarter_start_date(quarter, year).month + 2)

half_start_date(half, year) == date(year, IF half = 1 THEN 1 ELSE 7, 1)

half_end_date(half, year) ==
    end_of_month(year, half_start_date(half, year).month + 5)

quarter_for_date(value) == ((value.month - 1) \div 3) + 1

half_for_date(value) == IF value.month <= 6 THEN 1 ELSE 2

\* the _validate_year / _ensure_*_not_future checks return the message of the
\* ValueError they raise, or "" when they pass
validate_year(year) == IF year < MinYear THEN "year must be 1 or later." ELSE ""


\* variant: the current year is rejected as well
ensure_year_not_future_rejectsCurrent(year, reference_date) ==
    IF year >= reference_date.year THEN "year must not be in the future." ELSE ""

ensure_year_not_future(year, reference_date) ==
    IF year > reference_date.year THEN "year must not be in the future." ELSE ""

ensure_quarter_not_future(quarter, year, reference_date) ==
    IF year = reference_date.year /\ quarter > quarter_for_date(reference_date)
    THEN "quarter must not be in the future." ELSE ""


\* variant: the current month of the current year is rejected as well
ensure_month_not_future_rejectsCurrent(month, year, reference_date) ==
    IF year = reference_date.year /\ month >= reference_date.month
    THEN "month must not be in the future." ELSE ""

ensure_month_not_future(month, year, reference_date) ==
    IF year = reference_date.year /\ month > reference_date.month
    THEN "month must not be in the future." ELSE ""

ensure_half_not_future(half, year, reference_date) ==
    IF year = reference_date.year /\ half > half_for_date(reference_date)
    THEN "half must not be in the future." ELSE ""

for_quarter(quarter, override) ==
    LET current == resolve_today(override)
        current_quarter == quarter_for_date(current)
        target_year == resolve_relative_year(quarter, current_quarter, current.year)
        start == quarter_start_date(quarter, target_year)
        end == IF quarter = current_quarter /\ target_year = current.year
               THEN current
               ELSE quarter_end_date(quarter, target_year)
    IN DateRange(start, end)

for_quarter_in_year(quarter, year) ==
    LET t == resolve_today(NoDate) IN
    IF validate_year(year) # "" THEN ValueError(validate_year(year))
    ELSE IF ensure_year_not_future(year, t) # "" THEN ValueError(ensure_year_not_future(year, t))
    ELSE IF ensure_quarter_not_future(quarter, year, t) # ""
         THEN ValueError(ensure_quarter_not_future(quarter, year, t))
    ELSE DateRange(quarter_start_date(quarter, year), quarter_end_date(quarter, year))


\* variant: the current year is not truncated at today
for_year_untruncated(year, override) ==
    LET current == resolve_today(override) IN
    IF validate_year(year) # "" THEN ValueError(validate_year(year))
    ELSE IF ensure_year_not_future(year, current) # ""
         THEN ValueError(ensure_year_not_future(year, current))
    ELSE DateRange(date(year, 1, 1), date(year, 12, 31))

for_year(year, override) ==
    LET current == resolve_today(override) IN
    IF validate_year(year) # "" THEN ValueError(validate_year(year))
    ELSE IF ensure_year_not_future(year, current) # ""
         THEN ValueError(ensure_year_not_future(year, current))
    ELSE DateRange(date(year, 1, 1),
                   IF year = current.year THEN current ELSE date(year, 12, 31))

for_month(month, override) ==
    LET current == resolve_today(override)
        current_month == current.month
        target_year == resolve_relative_year(month, current_month, current.year)
        start == date(target_year, month, 1)
        end == IF target_year = current.year /\ month = current_month
               THEN current
               ELSE end_of_month(target_year, month)
    IN DateRange(start, end)

for_month_in_year(month, year) ==
    LET t == resolve_today(NoDate) IN
    IF validate_year(year) # "" THEN ValueError(validate_year(year))
    ELSE IF ensure_year_not_future(year, t) # "" THEN ValueError(ensure_year_not_future(year, t))
    ELSE IF ensure_month_not_future(month, year, t) # ""
         THEN ValueError(ensure_month_not_future(month, year, t))
    ELSE DateRange(date(year, month, 1), end_of_month(year, month))


\* variant: the in-progress half is not truncated at today
for_half_untruncated(half, override) ==
    LET current == resolve_today(override)
        current_half == half_for_date(current)
        target_year == resolve_relative_year(half, current_half, current.year)
    IN DateRange(half_start_date(half, target_year), half_end_date(half, target_year))

for_half(half, override) ==
    LET current == resolve_today(override)
        current_half == half_for_date(current)
        target_year == resolve_relative_year(half, current_half, current.year)
        start == half_start_date(half, target_year)
        end == IF half = current_half /\ target_year = current.year
               THEN current
               ELSE half_end_date(half, target_year)
    IN DateRange(start, end)

for_half_in_year(half, year) ==
    LET t == resolve_today(NoDate) IN
    IF validate_year(year) # "" THEN ValueError(validate_year(year))
    ELSE IF ensure_year_not_future(year, t) # "" THEN ValueError(ensure_year_not_future(year, t))
    ELSE IF ensure_half_not_future(half, year, t) # ""
         THEN ValueError(ensure_half_not_future(half, year, t))
    ELSE DateRange(half_start_date(half, year), half_end_date(half, year))


\* variant: a day after today is not rejected
for_date_unchecked(value) == DateRange(value, value)

\* variant: today itself is rejected as well
for_date_rejectsToday(value) ==
    IF DateLE(resolve_today(NoDate), value)
    THEN ValueError("date must not be in the future.")
    ELSE DateRange(value, value)

for_date(value) ==
    IF DateLT(resolve_today(NoDate), value)
    THEN ValueError("date must not be in the future.")
    ELSE DateRange(value, value)


\* variant: the window starts a full week before today
for_week_eightDays(override) ==
    LET end_date == resolve_today(override)
        start_date == AddDays(end_date, -7)
    IN DateRange(start_date, end_date)

for_week(override) ==
    LET end_date == resolve_today(override)
        start_date == AddDays(end_date, -6)
    IN DateRange(start_date, end_date)

(***************************************************************************)
(* The resolution engine as a state machine: each action is one call on a  *)
(* factory whose reference date is today, recording the call and its       *)
(* outcome.                                                                *)
(***************************************************************************)
Call(op, period, year, value, other) ==
    [op |-> op, period |-> period, year |-> year, value |-> value, other |-> other]

NoCall == Call("none", 0, 0, NoDate, NoDate)

NearToday == {AddDays(today, n) : n \in (-MaxDayShift)..MaxDayShift}

\* the keyword arguments half, month, quarter, year, on_date and week
Selector(half, month, quarter, year, on_date, week) ==
    [half |-> half, month |-> month, quarter |-> quarter, year |-> year,
     on_date |-> on_date, week |-> week]

NoOp == [name |-> "none", login |-> "", exclude_self_authored |-> FALSE,
         date_range |-> NoResult,
         selectors |-> Selector(None, None, None, None, NoDate, FALSE),
         members |-> <<>>]

\* nothing has been returned; the pair (date_range, value) a count operation
\* or count_member_statistics returns, a date_range of None being NoResult
NoReturn == [kind |-> "none", date_range |-> NoResult, value |-> <<>>]
Returned(date_range, value) == [kind |-> "return", date_range |-> date_range, value |-> value]

\* page_size: int = 50, the default of the constructor
DefaultPageSize == 50

\* the service is constructed with the default page size and no operation
\* has been called yet
ServiceIdle ==
    /\ operation = NoOp
    /\ status = "idle"
    /\ error = ""
    /\ cursor = None
    /\ total = 0
    /\ yielded = <<>>
    /\ requests = <<>>
    /\ responses = <<>>
    /\ served = <<>>
    /\ authored_count = None
    /\ statistics = <<>>
    /\ returned = NoReturn
    /\ page_size = DefaultPageSize

\* the factory keeps no state besides today, so a behaviour follows one
\* call on it
InitDates ==
    /\ today \in Todays
    /\ call = NoCall
    /\ result = NoResult
    /\ ServiceIdle

ForQuarter ==
    /\ call = NoCall
    /\ \E q \in Quarters :
            /\ call' = Call("for_quarter", q, 0, NoDate, NoDate)
            /\ result' = for_quarter(q, NoDate)
            /\ UNCHANGED today
            /\ UNCHANGED serviceVars

ForMonth ==
    /\ call = NoCall
    /\ \E m \in Months :
            /\ call' = Call("for_month", m, 0, NoDate, NoDate)
            /\ result' = for_month(m, NoDate)
            /\ UNCHANGED today
            /\ UNCHANGED serviceVars

ForHalf ==
    /\ call = NoCall
    /\ \E h \in Halves :
            /\ call' = Call("for_half", h, 0, NoDate, NoDate)
            /\ result' = for_half(h, NoDate)
            /\ UNCHANGED today
            /\ UNCHANGED serviceVars

ForQuarterInYear ==
    /\ call = NoCall
    /\ \E q \in Quarters, y \in YearInputs :
            /\ call' = Call("for_quarter_in_year", q, y, NoDate, NoDate)
            /\ result' = for_quarter_in_year(q, y)
            /\ UNCHANGED today
            /\ UNCHANGED serviceVars

ForMonthInYear ==
    /\ call = NoCall
    /\ \E m \in Months, y \in YearInputs :
            /\ call' = Call("for_month_in_year", m, y, NoDate, NoDate)
            /\ result' = for_month_in_year(m, y)
            /\ UNCHANGED today
            /\ UNCHANGED serviceVars

ForHalfInYear ==
    /\ call = NoCall
    /\ \E h \in Halves, y \in YearInputs :
            /\ call' = Call("for_half_in_year", h, y, NoDate, NoDate)
            /\ result' = for_half_in_year(h, y)
            /\ UNCHANGED today
            /\ UNCHANGED serviceVars

ForYear ==
    /\ call = NoCall
    /\ \E y \in YearInputs :
            /\ call' = Call("for_year", 0, y, NoDate, NoDate)
            /\ result' = for_year(y, NoDate)
            /\ UNCHANGED today
            /\ UNCHANGED serviceVars

ForDate ==
    /\ call = NoCall
    /\ \E d \in NearToday :
            /\ call' = Call("for_date", 0, 0, d, NoDate)
            /\ result' = for_date(d)
            /\ UNCHANGED today
            /\ UNCHANGED serviceVars

ForWeek ==
    /\ call = NoCall
    /\ call' = Call("for_week", 0, 0, NoDate, NoDate)
    /\ result' = for_week(NoDate)
    /\ UNCHANGED today
    /\ UNCHANGED serviceVars

\* DateRange(start_date=s, end_date=e) constructed directly by a caller
NewDateRange ==
    /\ call = NoCall
    /\ \E s \in NearToday, e \in NearToday :
            /\ call' = Call("DateRange", 0, 0, s, e)
            /\ result' = DateRange(s, e)
            /\ UNCHANGED today
            /\ UNCHANGED serviceVars

NextDates ==
    \/ ForQuarter
    \/ ForMonth
    \/ ForHalf
    \/ ForQuarterInYear
    \/ ForMonthInYear
    \/ ForHalfInYear
    \/ ForYear
    \/ ForDate
    \/ ForWeek
    \/ NewDateRange

Spec == InitDates /\ [][NextDates]_vars

(***************************************************************************)
(* PullRequestStatisticsService: period selection                          *)
(***************************************************************************)
\* the value a from_string call stands for when it raises ValueError
Unrecognised == 0 - 3

\* HalfName / MonthName / QuarterName.from_string on an enum member or an
\* integer: a member is returned unchanged, an integer is matched by value
HalfName_from_string(value) == IF value \in Halves THEN value ELSE Unrecognised

MonthName_from_string(value) == IF value \in Months THEN value ELSE Unrecognised

QuarterName_from_string(value) == IF value \in Quarters THEN value ELSE Unrecognised

\* variant: the week flag and a date may be given together
validate_period_inputs_dateWithWeek(sel) ==
    LET selected_periods == Cardinality({k \in {"half", "month", "quarter"} : sel[k] # None})
        half_value == IF sel.half # None THEN HalfName_from_string(sel.half) ELSE None
        month_value == IF sel.month # None THEN MonthName_from_string(sel.month) ELSE None
        quarter_value == IF sel.quarter # None THEN QuarterName_from_string(sel.quarter) ELSE None
        Fail(msg) == [message |-> msg, half |-> None, month |-> None, quarter |-> None]
    IN
    IF sel.half = None /\ sel.month = None /\ sel.quarter = None /\ sel.year = None
       /\ sel.on_date = NoDate /\ ~ sel.week
    THEN Fail("At least one of year, quarter, month, half, week or date is required.")
    ELSE IF sel.on_date # NoDate
            /\ (sel.half # None \/ sel.month # None \/ sel.quarter # None
                \/ sel.year # None)
    THEN Fail("date cannot be combined with year, quarter, month, half, or week.")
    ELSE IF sel.week
            /\ (sel.half # None \/ sel.month # None \/ sel.quarter # None
                \/ sel.year # None)
    THEN Fail("week cannot be combined with year, quarter, month, half, or date.")
    ELSE IF selected_periods > 1
    THEN Fail("Specify only one of month, quarter or half.")
    ELSE IF half_value = Unrecognised THEN Fail("Unrecognised half value")
    ELSE IF month_value = Unrecognised THEN Fail("Unrecognised month value")
    ELSE IF quarter_value = Unrecognised THEN Fail("Unrecognised quarter value")
    ELSE [message |-> "", half |-> half_value, month |-> month_value,
          quarter |-> quarter_value]

\* _validate_period_inputs: the message of the ValueError raised, or "" with
\* the normalised half, month and quarter
validate_period_inputs(sel) ==
    LET selected_periods == Cardinality({k \in {"half", "month", "quarter"} : sel[k] # None})
        half_value == IF sel.half # None THEN HalfName_from_string(sel.half) ELSE None
        month_value == IF sel.month # None THEN MonthName_from_string(sel.month) ELSE None
        quarter_value == IF sel.quarter # None THEN QuarterName_from_string(sel.quarter) ELSE None
        Fail(msg) == [message |-> msg, half |-> None, month |-> None, quarter |-> None]
    IN
    IF sel.half = None /\ sel.month = None /\ sel.quarter = None /\ sel.year = None
       /\ sel.on_date = NoDate /\ ~ sel.week
    THEN Fail("At least one of year, quarter, month, half, week or date is required.")
    ELSE IF sel.on_date # NoDate
            /\ (sel.half # None \/ sel.month # None \/ sel.quarter # None
                \/ sel.year # None \/ sel.week)
    THEN Fail("date cannot be combined with year, quarter, month, half, or week.")
    ELSE IF sel.week
            /\ (sel.half # None \/ sel.month # None \/ sel.quarter # None
                \/ sel.year # None \/ sel.on_date # NoDate)
    THEN Fail("week cannot be combined with year, quarter, month, half, or date.")
    ELSE IF selected_periods > 1
    THEN Fail("Specify only one of month, quarter or half.")
    ELSE IF half_value = Unrecognised THEN Fail("Unrecognised half value")
    ELSE IF month_value = Unrecognised THEN Fail("Unrecognised month value")
    ELSE IF quarter_value = Unrecognised THEN Fail("Unrecognised quarter value")
    ELSE [message |-> "", half |-> half_value, month |-> month_value,
          quarter |-> quarter_value]

\* variant: a year given with a half, month or quarter is not looked at
resolve_date_range_yearIgnored(sel) ==
    LET v == validate_period_inputs(sel) IN
    IF v.message # "" THEN ValueError(v.message)
    ELSE IF sel.week THEN for_week(NoDate)
    ELSE IF sel.on_date # NoDate THEN for_date(sel.on_date)
    ELSE IF v.half # None THEN for_half(v.half, NoDate)
    ELSE IF v.month # None THEN for_month(v.month, NoDate)
    ELSE IF v.quarter # None THEN for_quarter(v.quarter, NoDate)
    ELSE IF sel.year = None
         THEN ValueError("year is required when no month, quarter or half is provided.")
    ELSE for_year(sel.year, NoDate)

\* _resolve_date_range: the DateRange, or the ValueError raised
resolve_date_range(sel) ==
    LET v == validate_period_inputs(sel) IN
    IF v.message # "" THEN ValueError(v.message)
    ELSE IF sel.week THEN for_week(NoDate)
    ELSE IF sel.on_date # NoDate THEN for_date(sel.on_date)
    ELSE IF sel.year = None
         THEN IF v.half # None THEN for_half(v.half, NoDate)
              ELSE IF v.month # None THEN for_month(v.month, NoDate)
              ELSE IF v.quarter # None THEN for_quarter(v.quarter, NoDate)
              ELSE ValueError("year is required when no month, quarter or half is provided.")
    ELSE IF v.half # None THEN for_half_in_year(v.half, sel.year)
    ELSE IF v.month # None THEN for_month_in_year(v.month, sel.year)
    ELSE IF v.quarter # None THEN for_quarter_in_year(v.quarter, sel.year)
    ELSE for_year(sel.year, NoDate)

(***************************************************************************)
(* Instants: datetime values and the createdAt strings of review nodes     *)
(***************************************************************************)
\* 23:59:59 as seconds of the day
EndOfDaySecond == 86399

\* a datetime in UTC, or what a createdAt string is: "aware" (an ISO-8601
\* instant with Z or an offset), "naive" (ISO-8601 without offset),
\* "malformed" (not ISO-8601) or "missing" (null or empty)
DateTime(kind, d, second, micro) ==
    [kind |-> kind, date |-> d, second |-> second, micro |-> micro]

\* datetime.__le__ on two aware datetimes
DateTimeLE(a, b) ==
    \/ DateLT(a.date, b.date)
    \/ a.date = b.date /\ a.second < b.second
    \/ a.date = b.date /\ a.second = b.second /\ a.micro <= b.micro

\* _normalise_date_range: the ValueError message or "", and the bounds
normalise_date_range(start_date, end_date) ==
    IF DateLT(end_date, start_date)
    THEN [message |-> "end_date must not be earlier than start_date.",
          start_datetime |-> DateTime("aware", NoDate, 0, 0),
          end_datetime |-> DateTime("aware", NoDate, 0, 0)]
    ELSE [message |-> "",
          start_datetime |-> DateTime("aware", start_date, 0, 0),
          end_datetime |-> DateTime("aware", end_date, EndOfDaySecond, 0)]

(***************************************************************************)
(* Records of a search response                                            *)
(***************************************************************************)
\* the identity the operation is called for, and another user
Login == "octocat"
OtherLogin == "hubot"
\* an author object that is null, and an author key that is missing
NullAuthor == "<null>"
AbsentAuthor == "<absent>"

\* a review edge: its node (or a null node), the node's author and createdAt
Review(author, createdAt) == [kind |-> "node", author |-> author, createdAt |-> createdAt]
NullReview == [kind |-> "null", author |-> AbsentAuthor,
               createdAt |-> DateTime("missing", NoDate, 0, 0)]

\* an entry of nodes: a pull request with its author, whether the fields
\* of the summary are all there, and its review edges; or a null placeholder
PullRequest(author, fields, reviews) ==
    [kind |-> "pr", author |-> author, fields |-> fields, reviews |-> reviews]
NullNode == [kind |-> "null", author |-> AbsentAuthor, fields |-> "", reviews |-> <<>>]

\* variant: a review at the very last second of the window is left out
RECURSIVE has_review_in_range_endExclusive(_, _, _, _, _)
has_review_in_range_endExclusive(reviews, reviewer, start_datetime, end_datetime, i) ==
    IF i > Len(reviews) THEN "False"
    ELSE LET review_node == reviews[i]
             next == has_review_in_range_endExclusive(reviews, reviewer, start_datetime,
                                                      end_datetime, i + 1)
         IN
         IF review_node.kind = "null" THEN next
         ELSE IF review_node.author = NullAuthor THEN "AttributeError"
         ELSE IF review_node.author # reviewer THEN next
         ELSE IF review_node.createdAt.kind = "missing" THEN next
         ELSE IF review_node.createdAt.kind = "malformed" THEN next
         ELSE IF review_node.createdAt.kind = "naive" THEN "TypeError"
         ELSE IF /\ DateTimeLE(start_datetime, review_node.createdAt)
                 /\ DateTimeLE(review_node.createdAt, end_datetime)
                 /\ review_node.createdAt # end_datetime
              THEN "True"
         ELSE next

RECURSIVE has_review_in_range(_, _, _, _, _)
\* _has_review_in_range from edge i on: "True", "False", or the class of the
\* exception raised (the author object is null: AttributeError on .get; the
\* timestamp has no offset: TypeError on the comparison with an aware bound)
has_review_in_range(reviews, reviewer, start_datetime, end_datetime, i) ==
    IF i > Len(reviews) THEN "False"
    ELSE LET review_node == reviews[i]
             next == has_review_in_range(reviews, reviewer, start_datetime,
                                         end_datetime, i + 1)
         IN
         IF review_node.kind = "null" THEN next
         ELSE IF review_node.author = NullAuthor THEN "AttributeError"
         ELSE IF review_node.author # reviewer THEN next
         ELSE IF review_node.createdAt.kind = "missing" THEN next
         ELSE IF review_node.createdAt.kind = "malformed" THEN next
         ELSE IF review_node.createdAt.kind = "naive" THEN "TypeError"
         ELSE IF /\ DateTimeLE(start_datetime, review_node.createdAt)
                 /\ DateTimeLE(review_node.createdAt, end_datetime)
              THEN "True"
         ELSE next

\* PullRequestSummary.from_graphql: "" or the class of the exception raised
from_graphql(node) ==
    IF node.fields = "complete" THEN "" ELSE "MalformedResponseError"

\* dict.get(key, default) on the author object of a record, which holds the
\* one key the queries select: author { login }
author_get(author, key, default) == IF key = "login" THEN author ELSE default

\* the author of the summary PullRequestSummary.from_graphql builds:
\* author = node.get("author", {}) or {}, then author.get("username", "unknown")
summary_author(node) ==
    IF node.author \in {NullAuthor, AbsentAuthor} THEN "unknown"
    ELSE author_get(node.author, "username", "unknown")

\* the outcome of a loop over nodes: the records let through and the class
\* of the exception that ended the loop, "" if it ran to the end
Outcome(out, err) == [out |-> out, err |-> err]

RECURSIVE authored_nodes(_, _, _)
\* the for loop of iter_pull_requests_by_author_in_date_range from entry i
authored_nodes(nodes, i, out) ==
    IF i > Len(nodes) THEN Outcome(out, "")
    ELSE IF nodes[i].kind = "null" THEN authored_nodes(nodes, i + 1, out)
    ELSE IF from_graphql(nodes[i]) # "" THEN Outcome(out, from_graphql(nodes[i]))
    ELSE authored_nodes(nodes, i + 1, Append(out, nodes[i]))

\* variant: the author of the record is not looked at
is_self_authored_ignored(node, reviewer) == "False"

\* node.get("author", {}).get("login") == reviewer, evaluated only when
\* exclude_self_authored is set: "True", "False" or "AttributeError"
is_self_authored(node, reviewer) ==
    IF node.author = NullAuthor THEN "AttributeError"
    ELSE IF node.author = reviewer THEN "True"
    ELSE "False"

RECURSIVE iter_reviewed_nodes(_, _, _, _, _, _, _)
\* the for loop of iter_pull_requests_reviewed_by_user_in_date_range
iter_reviewed_nodes(nodes, i, out, reviewer, exclude_self_authored, start_datetime, end_datetime) ==
    IF i > Len(nodes) THEN Outcome(out, "")
    ELSE LET node == nodes[i]
             self == IF exclude_self_authored THEN is_self_authored(node, reviewer)
                     ELSE "False"
             found == has_review_in_range(node.reviews, reviewer, start_datetime,
                                          end_datetime, 1)
             skip == iter_reviewed_nodes(nodes, i + 1, out, reviewer,
                                         exclude_self_authored, start_datetime,
                                         end_datetime)
         IN
         IF node.kind = "null" THEN skip
         ELSE IF self = "AttributeError" THEN Outcome(out, self)
         ELSE IF self = "True" THEN skip
         ELSE IF found \notin {"True", "False"} THEN Outcome(out, found)
         ELSE IF found = "False" THEN skip
         ELSE IF from_graphql(node) # "" THEN Outcome(out, from_graphql(node))
         ELSE iter_reviewed_nodes(nodes, i + 1, Append(out, node), reviewer,
                                  exclude_self_authored, start_datetime, end_datetime)

\* variant: the reviewer's own records are counted whatever the flag
RECURSIVE count_reviewed_nodes_countsOwn(_, _, _, _, _, _, _)
count_reviewed_nodes_countsOwn(nodes, i, out, reviewer, exclude_self_authored, start_datetime, end_datetime) ==
    IF i > Len(nodes) THEN Outcome(out, "")
    ELSE LET node == nodes[i]
             found == has_review_in_range(node.reviews, reviewer, start_datetime,
                                          end_datetime, 1)
             skip == count_reviewed_nodes_countsOwn(nodes, i + 1, out, reviewer,
                                                    exclude_self_authored, start_datetime,
                                                    end_datetime)
         IN
         IF node.kind = "null" THEN skip
         ELSE IF found \notin {"True", "False"} THEN Outcome(out, found)
         ELSE IF found = "False" THEN skip
         ELSE count_reviewed_nodes_countsOwn(nodes, i + 1, Append(out, node), reviewer,
                                             exclude_self_authored, start_datetime,
                                             end_datetime)

RECURSIVE count_reviewed_nodes(_, _, _, _, _, _, _)
\* the for loop of _count_reviewed_within_range; out collects the records
\* for which total is incremented
count_reviewed_nodes(nodes, i, out, reviewer, exclude_self_authored, start_datetime, end_datetime) ==
    IF i > Len(nodes) THEN Outcome(out, "")
    ELSE LET node == nodes[i]
             self == IF exclude_self_authored THEN is_self_authored(node, reviewer)
                     ELSE "False"
             found == has_review_in_range(node.reviews, reviewer, start_datetime,
                                          end_datetime, 1)
             skip == count_reviewed_nodes(nodes, i + 1, out, reviewer,
                                          exclude_self_authored, start_datetime,
                                          end_datetime)
         IN
         IF node.kind = "null" THEN skip
         ELSE IF self = "AttributeError" THEN Outcome(out, self)
         ELSE IF self = "True" THEN skip
         ELSE IF found \notin {"True", "False"} THEN Outcome(out, found)
         ELSE IF found = "False" THEN skip
         ELSE count_reviewed_nodes(nodes, i + 1, Append(out, node), reviewer,
                                   exclude_self_authored, start_datetime, end_datetime)

(***************************************************************************)
(* The remote: what query_graphql returns or raises for one request        *)
(***************************************************************************)
\* fail: the class of the exception query_graphql raises, "" if it returns;
\* search and pageInfo: "present", "null" or "absent"; endCursor: a cursor
\* token, None or Absent
Page(fail, search, pageInfo, hasNextPage, endCursor, nodes) ==
    [fail |-> fail, search |-> search, pageInfo |-> pageInfo,
     hasNextPage |-> hasNextPage, endCursor |-> endCursor, nodes |-> nodes]

\* the sequences over pool of length at most n
SeqsUpTo(pool, n) == UNION {[1..k -> pool] : k \in 0..n}

\* the instants around the window [start 00:00:00, end 23:59:59] of range
WindowInstants(range) ==
    {DateTime("aware", PrevDay(range.start_date), EndOfDaySecond, 0),
     DateTime("aware", range.start_date, 0, 0),
     DateTime("aware", range.end_date, EndOfDaySecond, 0),
     DateTime("aware", range.end_date, EndOfDaySecond, 1),
     DateTime("aware", NextDay(range.end_date), 0, 0)}

\* three entries of a well-formed page: a null placeholder, a record of
\* another author and a record of the reviewer's own, each with a review by
\* the reviewer inside the window
PlainNodes(range) ==
    {NullNode,
     PullRequest(OtherLogin, "complete",
                 <<Review(Login, DateTime("aware", range.start_date, 0, 0))>>),
     PullRequest(Login, "complete",
                 <<Review(Login, DateTime("aware", range.end_date, EndOfDaySecond, 0))>>)}

\* every shape of review edge: a null node; a review by another user or
\* with a null author, inside the window; a review by the reviewer with
\* createdAt around the window, without offset, malformed or missing
ReviewEdges(range) ==
    {NullReview,
     Review(OtherLogin, DateTime("aware", range.start_date, 0, 0)),
     Review(NullAuthor, DateTime("aware", range.start_date, 0, 0))}
    \cup
    {Review(Login, t) :
        t \in WindowInstants(range) \cup
              {DateTime("naive", range.start_date, 0, 0),
               DateTime("malformed", NoDate, 0, 0),
               DateTime("missing", NoDate, 0, 0)}}

\* records with every author and every list of review edges
ReviewedNodes(range) ==
    {PullRequest(a, "complete", rs) :
        a \in {Login, OtherLogin, NullAuthor, AbsentAuthor},
        rs \in SeqsUpTo(ReviewEdges(range), MaxReviews)}

\* responses that are not a well-formed page: query_graphql raises, or the
\* search block or its pageInfo is missing or null
BrokenPages ==
    {Page("GitHubClientError", "absent", "absent", FALSE, None, <<>>),
     Page("MalformedResponseError", "absent", "absent", FALSE, None, <<>>),
     Page("", "absent", "absent", FALSE, None, <<>>),
     Page("", "null", "absent", FALSE, None, <<>>),
     Page("", "present", "absent", FALSE, None, <<>>),
     Page("", "present", "null", FALSE, None, <<>>)}

\* the responses the remote may give to request number k of a pagination
\* over range: the last page; a page that announces a next page with the
\* cursor token k; a page that announces one with a null endCursor or with
\* no endCursor; a broken response
PagingResponses(range, k) ==
    {Page("", "present", "present", FALSE, None, ns) :
        ns \in SeqsUpTo(PlainNodes(range), MaxNodes)}
    \cup
    {Page("", "present", "present", TRUE, k, ns) :
        ns \in SeqsUpTo(PlainNodes(range), MaxNodes)}
    \cup
    {Page("", "present", "present", TRUE, c, <<>>) : c \in {None, Absent}}
    \cup BrokenPages

\* a single last page holding at most one record of any shape
ReviewResponses(range, k) ==
    {Page("", "present", "present", FALSE, None, ns) :
        ns \in SeqsUpTo(ReviewedNodes(range), 1)}

\* an empty last page, or a transport failure
SingleResponses ==
    {Page("", "present", "present", FALSE, None, <<>>),
     Page("GitHubClientError", "absent", "absent", FALSE, None, <<>>)}

\* the responses to request number k that fit the rest of the result set,
\* drawn from the pool a specification names
Responses(pool, range, k) ==
    {page \in (IF pool = "review" THEN ReviewResponses(range, k)
               ELSE IF pool = "paging" THEN PagingResponses(range, k)
               ELSE SingleResponses) :
        Len(served) + Len(page.nodes) <= MaxServed}

(***************************************************************************)
(* PullRequestStatisticsService: the pagination loops                      *)
(***************************************************************************)
\* how one iteration of a while loop ends: the loop goes on ("running"),
\* breaks ("done") or an exception leaves it ("error"), with the cursor for
\* the next iteration and the records let through by this one
Step(st, err, cur, out) == [status |-> st, error |-> err, cursor |-> cur, out |-> out]

\* variant: the cursor of the previous request is sent again
next_cursor_stale(current, page) == current

\* cursor = page_info["endCursor"]
next_cursor(current, page) == page.endCursor

\* one iteration of the loop of iter_pull_requests_by_author_in_date_range
authored_page(page, current) ==
    LET loop == authored_nodes(page.nodes, 1, <<>>) IN
    IF page.fail # "" THEN Step("error", page.fail, current, <<>>)
    ELSE IF page.search # "present"
         THEN Step("error", "MalformedResponseError", current, <<>>)
    ELSE IF loop.err # "" THEN Step("error", loop.err, current, loop.out)
    ELSE IF page.pageInfo # "present"
         THEN Step("error", "MalformedResponseError", current, loop.out)
    ELSE IF ~ page.hasNextPage THEN Step("done", "", current, loop.out)
    ELSE IF page.endCursor = Absent THEN Step("error", "KeyError", current, loop.out)
    ELSE Step("running", "", next_cursor(current, page), loop.out)

\* one iteration of the loop of
\* iter_pull_requests_reviewed_by_user_in_date_range
iter_reviewed_page(page, current, reviewer, exclude_self_authored, range) ==
    LET start_datetime == DateTime("aware", range.start_date, 0, 0)
        end_datetime == DateTime("aware", range.end_date, EndOfDaySecond, 0)
        loop == iter_reviewed_nodes(page.nodes, 1, <<>>, reviewer, exclude_self_authored,
                                    start_datetime, end_datetime)
    IN
    IF page.fail # "" THEN Step("error", page.fail, current, <<>>)
    ELSE IF page.search = "absent" THEN Step("error", "KeyError", current, <<>>)
    ELSE IF page.search = "null" THEN Step("error", "AttributeError", current, <<>>)
    ELSE IF loop.err # "" THEN Step("error", loop.err, current, loop.out)
    ELSE IF page.pageInfo = "absent" THEN Step("error", "KeyError", current, loop.out)
    ELSE IF page.pageInfo = "null" THEN Step("error", "TypeError", current, loop.out)
    ELSE IF ~ page.hasNextPage THEN Step("done", "", current, loop.out)
    ELSE IF page.endCursor = Absent THEN Step("error", "KeyError", current, loop.out)
    ELSE Step("running", "", next_cursor(current, page), loop.out)

\* one iteration of the loop of _count_reviewed_within_range
count_reviewed_page(page, current, reviewer, exclude_self_authored, range) ==
    LET bounds == normalise_date_range(range.start_date, range.end_date)
        loop == count_reviewed_nodes(page.nodes, 1, <<>>, reviewer, exclude_self_authored,
                                     bounds.start_datetime, bounds.end_datetime)
    IN
    IF page.fail # "" THEN Step("error", page.fail, current, <<>>)
    ELSE IF page.search # "present"
         THEN Step("error", "MalformedResponseError", current, <<>>)
    ELSE IF loop.err # "" THEN Step("error", loop.err, current, loop.out)
    ELSE IF page.pageInfo # "present"
         THEN Step("error", "MalformedResponseError", current, loop.out)
    ELSE IF ~ page.hasNextPage THEN Step("done", "", current, loop.out)
    ELSE IF page.endCursor = Absent THEN Step("error", "KeyError", current, loop.out)
    ELSE Step("running", "", next_cursor(current, page), loop.out)

\* what the pagination records of a response: whether it had a search block
\* with pageInfo, and the pageInfo
PageInfo(page) ==
    [wellformed |-> page.search = "present" /\ page.pageInfo = "present",
     hasNextPage |-> page.hasNextPage, endCursor |-> page.endCursor]

\* a public operation is called (an enumeration: its iteration starts): the
\* period is resolved and the search expression built before the first
\* request; a rejected period raises. The service keeps no state from one
\* call to the next, so a behaviour follows one call.
Begin(name, exclude_self_authored, sel) ==
    LET range == resolve_date_range(sel)
        bounds == normalise_date_range(range.start_date, range.end_date)
        failed == range.kind = "error" \/ bounds.message # ""
    IN
    /\ status = "idle"
    /\ operation' = [name |-> name, login |-> Login,
                     exclude_self_authored |-> exclude_self_authored,
                     date_range |-> range, selectors |-> sel, members |-> <<>>]
    /\ status' = IF failed THEN "error" ELSE "running"
    /\ error' = IF failed THEN "ValueError" ELSE ""
    /\ cursor' = None
    /\ total' = 0
    /\ yielded' = <<>>
    /\ requests' = <<>>
    /\ responses' = <<>>
    /\ served' = <<>>
    /\ authored_count' = None
    /\ statistics' = <<>>
    /\ returned' = NoReturn
    /\ UNCHANGED fixedVars

\* the request of one loop iteration is sent, the remote answers with page
\* and the iteration ends as step says
Iterate(query, page, step) ==
    /\ requests' = Append(requests, [query |-> query, pageSize |-> page_size,
                                     after |-> cursor])
    /\ responses' = IF page.fail = "" THEN Append(responses, PageInfo(page)) ELSE responses
    /\ served' = IF page.fail = "" /\ page.search = "present"
                 THEN served \o page.nodes ELSE served
    /\ status' = step.status
    /\ error' = step.error
    /\ cursor' = step.cursor
    /\ UNCHANGED <<operation, fixedVars, memberVars>>

StartIterAuthored(selectors) ==
    /\ status = "idle"
    /\ \E sel \in selectors :
        Begin("iter_pull_requests_by_author_in_date_range", FALSE, sel)

StartIterReviewed(selectors) ==
    /\ status = "idle"
    /\ \E sel \in selectors, exclude_self_authored \in BOOLEAN :
        Begin("iter_pull_requests_reviewed_by_user_in_date_range",
              exclude_self_authored, sel)

StartCountReviewed(selectors) ==
    /\ status = "idle"
    /\ \E sel \in selectors, exclude_self_authored \in BOOLEAN :
        Begin("count_pull_requests_reviewed_by_user_in_date_range",
              exclude_self_authored, sel)

IterAuthoredPage(pool) ==
    /\ status = "running"
    /\ operation.name = "iter_pull_requests_by_author_in_date_range"
    /\ Len(requests) < MaxRequests
    /\ \E page \in Responses(pool, operation.date_range, Len(requests) + 1) :
        LET step == authored_page(page, cursor) IN
        /\ Iterate("LIST_QUERY", page, step)
        /\ yielded' = yielded \o step.out
        /\ UNCHANGED total

IterReviewedPage(pool) ==
    /\ status = "running"
    /\ operation.name = "iter_pull_requests_reviewed_by_user_in_date_range"
    /\ Len(requests) < MaxRequests
    /\ \E page \in Responses(pool, operation.date_range, Len(requests) + 1) :
        LET step == iter_reviewed_page(page, cursor, operation.login,
                                       operation.exclude_self_authored,
                                       operation.date_range) IN
        /\ Iterate("REVIEW_LIST_QUERY", page, step)
        /\ yielded' = yielded \o step.out
        /\ UNCHANGED total

CountReviewedPage(pool) ==
    /\ status = "running"
    /\ operation.name = "count_pull_requests_reviewed_by_user_in_date_range"
    /\ Len(requests) < MaxRequests
    /\ \E page \in Responses(pool, operation.date_range, Len(requests) + 1) :
        LET step == count_reviewed_page(page, cursor, operation.login,
                                        operation.exclude_self_authored,
                                        operation.date_range) IN
        /\ Iterate("REVIEW_COUNT_QUERY", page, step)
        /\ total' = total + Len(step.out)
        /\ UNCHANGED yielded

(***************************************************************************)
(* PullRequestStatisticsService: the authored count                        *)
(***************************************************************************)
\* what query_graphql returns or raises for COUNT_QUERY: fail is the class
\* of the exception raised, "" if it returns; search is "present", "null" or
\* "absent"; issueCount is the count, or None when it is null or missing
CountResponse(fail, search, issueCount) ==
    [fail |-> fail, search |-> search, issueCount |-> issueCount]

\* the value a helper returns, or the class of the exception it raises
Counted(err, value) == [err |-> err, value |-> value]

\* variant: the count is that of the one node COUNT_QUERY asks for (first: 1)
extract_issue_count_ofPage(issue_count) ==
    IF issue_count = None THEN Counted("MalformedResponseError", 0)
    ELSE Counted("", IF issue_count > 1 THEN 1 ELSE issue_count)

\* _extract_issue_count
extract_issue_count(issue_count) ==
    IF issue_count = None THEN Counted("MalformedResponseError", 0)
    ELSE Counted("", issue_count)

\* variant: a failed query counts as zero instead of raising
count_authored_within_range_bestEffort(response) ==
    IF response.fail # "" THEN Counted("", 0)
    ELSE IF response.search # "present" THEN Counted("", 0)
    ELSE extract_issue_count(response.issueCount)

\* _count_authored_within_range, from the response to its one request on
count_authored_within_range(response) ==
    IF response.fail # "" THEN Counted(response.fail, 0)
    ELSE IF response.search # "present" THEN Counted("MalformedResponseError", 0)
    ELSE extract_issue_count(response.issueCount)

\* the responses to COUNT_QUERY: a count of zero, of two, or beyond the
\* thousand results a search can page through; no issueCount; no search
\* block; a null search block; a transport failure; a malformed payload
CountResponses ==
    {CountResponse("", "present", n) : n \in {0, 2, 1001, None}}
    \cup
    {CountResponse("", "absent", None),
     CountResponse("", "null", None),
     CountResponse("GitHubClientError", "absent", None),
     CountResponse("MalformedResponseError", "absent", None)}

StartCountAuthored(selectors) ==
    /\ status = "idle"
    /\ \E sel \in selectors :
        Begin("count_pull_requests_by_author_in_date_range", FALSE, sel)

\* the one request of count_pull_requests_by_author_in_date_range and its
\* return
CountAuthoredQuery ==
    /\ status = "running"
    /\ operation.name = "count_pull_requests_by_author_in_date_range"
    /\ \E response \in CountResponses :
        LET outcome == count_authored_within_range(response) IN
        /\ requests' = Append(requests, [query |-> "COUNT_QUERY", after |-> Absent,
                                         login |-> operation.login])
        /\ responses' = Append(responses, response)
        /\ status' = IF outcome.err = "" THEN "done" ELSE "error"
        /\ error' = outcome.err
        /\ total' = outcome.value
        /\ returned' = IF outcome.err = ""
                       THEN Returned(operation.date_range, outcome.value)
                       ELSE NoReturn
        /\ UNCHANGED <<operation, cursor, yielded, served, authored_count, statistics>>
        /\ UNCHANGED fixedVars

(***************************************************************************)
(* PullRequestStatisticsService: count_member_statistics                   *)
(***************************************************************************)
MemberStatistics(login, authored, reviewed) ==
    [login |-> login, authored_count |-> authored, reviewed_count |-> reviewed]

\* variant: blank entries are kept
RECURSIVE unique_members_keepsBlanks(_, _, _)
unique_members_keepsBlanks(members, i, out) ==
    IF i > Len(members) THEN out
    ELSE IF \E j \in 1..Len(out) : out[j] = members[i]
         THEN unique_members_keepsBlanks(members, i + 1, out)
    ELSE unique_members_keepsBlanks(members, i + 1, Append(out, members[i]))

\* variant: a login that occurs again is kept again
RECURSIVE unique_members_keepsDuplicates(_, _, _)
unique_members_keepsDuplicates(members, i, out) ==
    IF i > Len(members) THEN out
    ELSE IF members[i] = "" THEN unique_members_keepsDuplicates(members, i + 1, out)
    ELSE unique_members_keepsDuplicates(members, i + 1, Append(out, members[i]))

RECURSIVE unique_members(_, _, _)
\* [login for login in dict.fromkeys(members) if login], from entry i on
unique_members(members, i, out) ==
    IF i > Len(members) THEN out
    ELSE IF members[i] = "" THEN unique_members(members, i + 1, out)
    ELSE IF \E j \in 1..Len(out) : out[j] = members[i]
         THEN unique_members(members, i + 1, out)
    ELSE unique_members(members, i + 1, Append(out, members[i]))

\* variant: the members are gone through from the last to the first
member_lastFirst ==
    LET unique == unique_members(operation.members, 1, <<>>) IN
    unique[Len(unique) - Len(statistics)]

\* the member the for loop of count_member_statistics is at
member == unique_members(operation.members, 1, <<>>)[Len(statistics) + 1]

\* a login that is none of the members
ThirdLogin == "ghost"

\* the pages the remote may give to request number k of the reviewed count
\* of reviewer: an empty last page; a last page with a record reviewed
\* inside the window and a record of the reviewer's own; a page with a
\* reviewed record that announces a next page; a page whose only review is
\* after the window and that announces a next page; a page without
\* pageInfo; a transport failure
MemberPages(range, reviewer, k) ==
    LET inside == Review(reviewer, DateTime("aware", range.end_date, EndOfDaySecond, 0))
        after == Review(reviewer, DateTime("aware", NextDay(range.end_date), 0, 0))
    IN
    {Page("", "present", "present", FALSE, None, <<>>),
     Page("", "present", "present", FALSE, None,
          <<PullRequest(ThirdLogin, "complete", <<inside>>),
            PullRequest(reviewer, "complete", <<inside>>)>>),
     Page("", "present", "present", TRUE, k,
          <<PullRequest(ThirdLogin, "complete", <<inside>>)>>),
     Page("", "present", "present", TRUE, k,
          <<PullRequest(ThirdLogin, "complete", <<after>>)>>),
     Page("", "present", "absent", FALSE, None, <<>>),
     Page("GitHubClientError", "absent", "absent", FALSE, None, <<>>)}

\* the pages of the pool a specification names that fit the result set
MemberResponses(pool, range, reviewer, k) ==
    {page \in (IF pool = "members" THEN MemberPages(range, reviewer, k)
               ELSE SingleResponses) :
        Len(served) + Len(page.nodes) <= MaxServed}

\* the lists of logins count_member_statistics is called with
MemberInputs == SeqsUpTo({"", Login, OtherLogin}, MaxMembers)

\* count_member_statistics up to the for loop: the empty list returns at
\* once, a rejected period raises
StartMemberStatistics(inputs, selectors) ==
    /\ status = "idle"
    /\ \E members \in inputs, sel \in selectors, exclude_self_authored \in BOOLEAN :
        LET empty == unique_members(members, 1, <<>>) = <<>>
            range == IF empty THEN NoResult ELSE resolve_date_range(sel)
            failed == range.kind = "error"
        IN
        /\ operation' = [name |-> "count_member_statistics", login |-> "",
                         exclude_self_authored |-> exclude_self_authored,
                         date_range |-> range, selectors |-> sel, members |-> members]
        /\ status' = IF empty THEN "done" ELSE IF failed THEN "error" ELSE "running"
        /\ error' = IF failed THEN "ValueError" ELSE ""
        /\ returned' = IF empty THEN Returned(NoResult, <<>>) ELSE NoReturn
        /\ cursor' = None
        /\ total' = 0
        /\ yielded' = <<>>
        /\ requests' = <<>>
        /\ responses' = <<>>
        /\ served' = <<>>
        /\ authored_count' = None
        /\ statistics' = <<>>
        /\ UNCHANGED fixedVars

\* _count_authored_within_range for the member the loop is at
MemberAuthoredCount ==
    /\ status = "running"
    /\ operation.name = "count_member_statistics"
    /\ authored_count = None
    /\ \E response \in CountResponses :
        LET outcome == count_authored_within_range(response) IN
        /\ requests' = Append(requests, [query |-> "COUNT_QUERY", after |-> Absent,
                                         login |-> member])
        /\ responses' = Append(responses, response)
        /\ status' = IF outcome.err = "" THEN "running" ELSE "error"
        /\ error' = outcome.err
        /\ authored_count' = IF outcome.err = "" THEN outcome.value ELSE authored_count
        /\ cursor' = None
        /\ total' = 0
        /\ UNCHANGED <<operation, yielded, served, statistics, returned>>
        /\ UNCHANGED fixedVars

\* the requests of the reviewed count for login sent so far
PagesRequested(login) ==
    Cardinality({k \in 1..Len(requests) :
                    requests[k].login = login /\ requests[k].query = "REVIEW_COUNT_QUERY"})

\* one iteration of the loop of _count_reviewed_within_range for the member
\* the loop is at; when the loop breaks the member's MemberStatistics is
\* appended, and after the last member the operation returns
MemberReviewedPage(pool) ==
    /\ status = "running"
    /\ operation.name = "count_member_statistics"
    /\ authored_count # None
    /\ PagesRequested(member) < MaxRequests - 1
    /\ \E page \in MemberResponses(pool, operation.date_range, member,
                                   PagesRequested(member) + 1) :
        LET step == count_reviewed_page(page, cursor, member,
                                        operation.exclude_self_authored,
                                        operation.date_range)
            reviewed_count == total + Len(step.out)
            finished == step.status = "done"
            last == Len(statistics) + 1 = Len(unique_members(operation.members, 1, <<>>))
            appended == Append(statistics,
                               MemberStatistics(member, authored_count, reviewed_count))
        IN
        /\ requests' = Append(requests, [query |-> "REVIEW_COUNT_QUERY",
                                         pageSize |-> page_size, after |-> cursor,
                                         login |-> member])
        /\ responses' = Append(responses, page)
        /\ served' = IF page.fail = "" /\ page.search = "present"
                     THEN served \o page.nodes ELSE served
        /\ status' = IF step.status = "error" THEN "error"
                     ELSE IF finished /\ last THEN "done"
                     ELSE "running"
        /\ error' = step.error
        /\ cursor' = IF finished THEN None ELSE step.cursor
        /\ total' = IF finished THEN 0 ELSE reviewed_count
        /\ statistics' = IF finished THEN appended ELSE statistics
        /\ authored_count' = IF finished THEN None ELSE authored_count
        /\ returned' = IF finished /\ last
                       THEN Returned(operation.date_range, appended)
                       ELSE returned
        /\ UNCHANGED <<operation, yielded>>
        /\ UNCHANGED fixedVars

\* the reference date of the service runs: its trailing week crosses the
\* turn of the year
ServiceTodays == {date(BaseYear + 1, 1, 3)}

\* period selections of the paginated runs: the trailing week, and none
PagingSelectors ==
    {Selector(None, None, None, None, NoDate, TRUE),
     Selector(None, None, None, None, NoDate, FALSE)}

\* period selections of the review-filter runs: the trailing week and today
ReviewSelectors ==
    {Selector(None, None, None, None, NoDate, TRUE),
     Selector(None, None, None, None, today, FALSE)}

InitService ==
    /\ today \in ServiceTodays
    /\ call = NoCall
    /\ result = NoResult
    /\ ServiceIdle

NextPaging ==
    \/ StartIterAuthored(PagingSelectors)
    \/ StartIterReviewed(PagingSelectors)
    \/ StartCountReviewed(PagingSelectors)
    \/ IterAuthoredPage("paging")
    \/ IterReviewedPage("paging")
    \/ CountReviewedPage("paging")

\* the pagination loops against a remote that serves any sequence of pages
SpecPaging == InitService /\ [][NextPaging]_vars

NextReview ==
    \/ StartIterReviewed(ReviewSelectors)
    \/ StartCountReviewed(ReviewSelectors)
    \/ IterReviewedPage("review")
    \/ CountReviewedPage("review")

\* the review queries against a remote that serves one record of any shape
SpecReview == InitService /\ [][NextReview]_vars

\* period selections of the member statistics runs: the trailing week
MemberSelectors == {Selector(None, None, None, None, NoDate, TRUE)}

NextMembers ==
    \/ StartCountAuthored(MemberSelectors)
    \/ CountAuthoredQuery
    \/ StartMemberStatistics(MemberInputs, MemberSelectors)
    \/ MemberAuthoredCount
    \/ MemberReviewedPage("members")

\* every selection of periods: each of half, month and quarter missing,
\* valid, later in the year than today, or unrecognised; the year missing,
\* below the minimum, past, current or future; the date missing, today or
\* tomorrow; the week flag
SelectionInputs ==
    {Selector(half, month, quarter, year, on_date, week) :
        half \in {None, 1, 2, 3},
        month \in {None, 1, 2, 13},
        quarter \in {None, 1, 2, 5},
        year \in {None, MinYear - 1, today.year - 1, today.year, today.year + 1},
        on_date \in {NoDate, today, NextDay(today)},
        week \in BOOLEAN}

NextSelection ==
    \/ StartCountAuthored(SelectionInputs)
    \/ StartIterAuthored(SelectionInputs)
    \/ StartIterReviewed(SelectionInputs)
    \/ StartCountReviewed(SelectionInputs)
    \/ StartMemberStatistics({<<>>, <<Login>>}, SelectionInputs)
    \/ CountAuthoredQuery
    \/ IterAuthoredPage("single")
    \/ IterReviewedPage("single")
    \/ CountReviewedPage("single")
    \/ MemberAuthoredCount
    \/ MemberReviewedPage("single")

\* every operation called with every selection of periods
SpecSelection == InitService /\ [][NextSelection]_vars

\* the authored count and the member statistics against a remote that
\* serves any count and any sequence of pages
SpecMembers == InitService /\ [][NextMembers]_vars

(***************************************************************************)
(* PullRequestStatisticsService: construction                              *)
(***************************************************************************)
\* variant: a page size of zero is let through
validate_page_size_allowsZero(size) ==
    IF ~ (0 <= size /\ size <= 100)
    THEN "page_size must be between 1 and 100 to satisfy GitHub search limits."
    ELSE ""

\* the check of __init__: the message of the ValueError raised, "" if none
validate_page_size(size) ==
    IF ~ (1 <= size /\ size <= 100)
    THEN "page_size must be between 1 and 100 to satisfy GitHub search limits."
    ELSE ""

\* the page sizes a caller may pass: negative, zero, the smallest, the
\* default, the largest, and one beyond
PageSizes == {0 - 1, 0, 1, DefaultPageSize, 100, 101}

\* the call of the constructor with page_size = size
Constructor(size) == [op |-> "PullRequestStatisticsService", page_size |-> size]

\* before the constructor is called
InitConstruction ==
    /\ today \in ServiceTodays
    /\ call = NoCall
    /\ result = NoResult
    /\ operation = NoOp
    /\ status = "new"
    /\ error = ""
    /\ cursor = None
    /\ total = 0
    /\ yielded = <<>>
    /\ requests = <<>>
    /\ responses = <<>>
    /\ served = <<>>
    /\ authored_count = None
    /\ statistics = <<>>
    /\ returned = NoReturn
    /\ page_size = None

\* PullRequestStatisticsService(client, page_size=size): raises, or stores
\* the page size
Construct ==
    /\ status = "new"
    /\ \E size \in PageSizes :
        LET message == validate_page_size(size) IN
        /\ call' = Constructor(size)
        /\ status' = IF message # "" THEN "error" ELSE "idle"
        /\ error' = IF message # "" THEN "ValueError" ELSE ""
        /\ page_size' = IF message # "" THEN page_size ELSE size
        /\ UNCHANGED <<today, result, operation, cursor, total, yielded, requests,
                       responses, served, authored_count, statistics, returned>>

NextConstruction ==
    \/ Construct
    \/ StartIterAuthored(PagingSelectors)
    \/ StartIterReviewed(PagingSelectors)
    \/ StartCountReviewed(PagingSelectors)
    \/ StartMemberStatistics({<<Login>>}, MemberSelectors)
    \/ IterAuthoredPage("paging")
    \/ IterReviewedPage("paging")
    \/ CountReviewedPage("paging")
    \/ MemberAuthoredCount
    \/ MemberReviewedPage("single")

\* the service constructed with any page size, then any paginated operation
SpecConstruction == InitConstruction /\ [][NextConstruction]_vars

(***************************************************************************)
(* TeamMembersService: listing the members of a team                       *)
(***************************************************************************)
\* page_size: int = 100, the default of the constructor of the team service
DefaultTeamPageSize == 100

\* a login that is null or missing in a member node
NullLogin == "<null>"

\* a member node of the response, and the TeamMember built from one
MemberNode(login) == [login |-> login, name |-> "<null>"]
TeamMember(login, name) == [login |-> login, name |-> name]

\* what query_graphql returns or raises for TEAM_MEMBERS_QUERY. fail: the
\* class of the exception raised, "" if it returns; organization, team,
\* members, entries (the key nodes), pageInfo and indicator (the key
\* hasNextPage): "present", or "null" when the key is null or missing;
\* endCursor: a cursor token, or None when it is null or missing
TeamPage(fail, present, hasNextPage, endCursor, nodes) ==
    [fail |-> fail,
     organization |-> IF present >= 1 THEN "present" ELSE "null",
     team |-> IF present >= 2 THEN "present" ELSE "null",
     members |-> IF present >= 3 THEN "present" ELSE "null",
     entries |-> IF present >= 4 THEN "present" ELSE "null",
     pageInfo |-> IF present >= 5 THEN "present" ELSE "null",
     indicator |-> IF present >= 6 THEN "present" ELSE "null",
     hasNextPage |-> hasNextPage, endCursor |-> endCursor, nodes |-> nodes]

\* what _extract_members_page returns or raises
Extracted(err, nodes, has_next_page, after) ==
    [err |-> err, nodes |-> nodes, has_next_page |-> has_next_page, cursor |-> after]

\* variant: a page may announce a next page without a cursor
extract_members_page_cursorOptional(data) ==
    IF \/ data.organization = "null"
       \/ data.team = "null"
       \/ data.members = "null"
       \/ data.entries = "null"
       \/ data.pageInfo = "null"
       \/ data.indicator = "null"
    THEN Extracted("MalformedResponseError", <<>>, FALSE, None)
    ELSE Extracted("", data.nodes, data.hasNextPage, data.endCursor)

\* _extract_members_page
extract_members_page(data) ==
    IF data.organization = "null" THEN Extracted("MalformedResponseError", <<>>, FALSE, None)
    ELSE IF data.team = "null" THEN Extracted("MalformedResponseError", <<>>, FALSE, None)
    ELSE IF data.members = "null" THEN Extracted("MalformedResponseError", <<>>, FALSE, None)
    ELSE IF data.entries = "null" THEN Extracted("MalformedResponseError", <<>>, FALSE, None)
    ELSE IF data.pageInfo = "null" THEN Extracted("MalformedResponseError", <<>>, FALSE, None)
    ELSE IF data.indicator = "null"
         THEN Extracted("MalformedResponseError", <<>>, FALSE, None)
    ELSE IF data.hasNextPage /\ data.endCursor = None
         THEN Extracted("MalformedResponseError", <<>>, FALSE, None)
    ELSE Extracted("", data.nodes, data.hasNextPage, data.endCursor)

RECURSIVE build_members(_, _, _)
\* for node in nodes: yield _build_member(node), from entry i on; a login
\* that is null, missing or empty raises
build_members(nodes, i, out) ==
    IF i > Len(nodes) THEN Outcome(out, "")
    ELSE IF nodes[i].login \in {NullLogin, ""}
         THEN Outcome(out, "MalformedResponseError")
    ELSE build_members(nodes, i + 1, Append(out, TeamMember(nodes[i].login, nodes[i].name)))

\* one iteration of the loop of iter_team_members
team_members_page(data, current) ==
    LET page == extract_members_page(data)
        loop == build_members(page.nodes, 1, <<>>)
    IN
    IF data.fail # "" THEN Step("error", data.fail, current, <<>>)
    ELSE IF page.err # "" THEN Step("error", page.err, current, <<>>)
    ELSE IF loop.err # "" THEN Step("error", loop.err, page.cursor, loop.out)
    ELSE IF ~ page.has_next_page THEN Step("done", "", page.cursor, loop.out)
    ELSE Step("running", "", page.cursor, loop.out)

\* the member nodes of a page: two members, a member whose login is null
\* and one whose login is empty
MemberNodes == {MemberNode(l) : l \in {Login, OtherLogin, NullLogin, ""}}

\* the responses to request number k: a last page, with or without a
\* cursor; a page that announces a next page with the cursor token k; a
\* page that announces one without a cursor; a response cut off below each
\* level; a transport failure
TeamResponses(k) ==
    {page \in
        {TeamPage("", 6, FALSE, c, ns) :
            c \in {None, k}, ns \in SeqsUpTo(MemberNodes, MaxNodes)}
        \cup
        {TeamPage("", 6, TRUE, k, ns) : ns \in SeqsUpTo(MemberNodes, MaxNodes)}
        \cup
        {TeamPage("", 6, TRUE, None, <<MemberNode(Login)>>)}
        \cup
        {TeamPage("", present, TRUE, k, <<MemberNode(Login)>>) : present \in 0..5}
        \cup
        {TeamPage("GitHubClientError", 0, FALSE, None, <<>>)} :
     Len(served) + Len(page.nodes) <= MaxServed}

\* iter_team_members(team_slug) starts to iterate, or list_team_members
\* (team_slug) is called
StartTeamMembers ==
    /\ status = "idle"
    /\ \E name \in {"iter_team_members", "list_team_members"} :
        operation' = [NoOp EXCEPT !.name = name]
    /\ status' = "running"
    /\ error' = ""
    /\ cursor' = None
    /\ total' = 0
    /\ yielded' = <<>>
    /\ requests' = <<>>
    /\ responses' = <<>>
    /\ served' = <<>>
    /\ authored_count' = None
    /\ statistics' = <<>>
    /\ returned' = NoReturn
    /\ UNCHANGED fixedVars

\* one iteration of the loop of iter_team_members; list_team_members
\* returns the list of what was yielded when the loop breaks
TeamMembersPage ==
    /\ status = "running"
    /\ operation.name \in {"iter_team_members", "list_team_members"}
    /\ Len(requests) < MaxRequests
    /\ \E data \in TeamResponses(Len(requests) + 1) :
        LET step == team_members_page(data, cursor) IN
        /\ requests' = Append(requests, [query |-> "TEAM_MEMBERS_QUERY",
                                         pageSize |-> DefaultTeamPageSize,
                                         after |-> cursor])
        /\ responses' = Append(responses, data)
        /\ served' = IF data.fail = "" /\ extract_members_page(data).err = ""
                     THEN served \o data.nodes ELSE served
        /\ status' = step.status
        /\ error' = step.error
        /\ cursor' = step.cursor
        /\ yielded' = yielded \o step.out
        /\ returned' = IF step.status = "done" /\ operation.name = "list_team_members"
                       THEN Returned(NoResult, yielded \o step.out)
                       ELSE returned
        /\ UNCHANGED <<operation, total, authored_count, statistics, fixedVars>>

NextTeam ==
    \/ StartTeamMembers
    \/ TeamMembersPage

\* the team listing against a remote that serves any sequence of pages
SpecTeam == InitService /\ [][NextTeam]_vars

(***************************************************************************)
(* Quarter, Month and Half: from_string                                    *)
(***************************************************************************)
\* a text is the sequence of its characters
MaxTextLen == 3

LowerLetters == <<"a", "b", "c", "d", "e", "f", "g", "h", "i", "j", "k", "l", "m",
                  "n", "o", "p", "q", "r", "s", "t", "u", "v", "w", "x", "y", "z">>
UpperLetters == <<"A", "B", "C", "D", "E", "F", "G", "H", "I", "J", "K", "L", "M",
                  "N", "O", "P", "Q", "R", "S", "T", "U", "V", "W", "X", "Y", "Z">>
Digits == <<"0", "1", "2", "3", "4", "5", "6", "7", "8", "9">>

\* str.upper
upper(text) ==
    [i \in 1..Len(text) |->
        IF \E k \in 1..26 : LowerLetters[k] = text[i]
        THEN UpperLetters[CHOOSE k \in 1..26 : LowerLetters[k] = text[i]]
        ELSE text[i]]

RECURSIVE lstrip(_)
lstrip(text) == IF text # <<>> /\ Head(text) = " " THEN lstrip(Tail(text)) ELSE text

RECURSIVE rstrip(_)
rstrip(text) ==
    IF text # <<>> /\ text[Len(text)] = " " THEN rstrip(SubSeq(text, 1, Len(text) - 1))
    ELSE text

\* str.strip
strip(text) == rstrip(lstrip(text))

\* str.isdigit
isdigit(text) ==
    /\ text # <<>>
    /\ \A i \in 1..Len(text) : \E k \in 1..10 : Digits[k] = text[i]

RECURSIVE int(_)
\* int(text) for a text of digits
int(text) ==
    IF text = <<>> THEN 0
    ELSE 10 * int(SubSeq(text, 1, Len(text) - 1))
         + (CHOOSE k \in 1..10 : Digits[k] = text[Len(text)]) - 1

RECURSIVE str_int(_)
\* str(n) for an integer n
str_int(n) ==
    IF n < 0 THEN <<"-">> \o str_int(0 - n)
    ELSE IF n < 10 THEN <<Digits[n + 1]>>
    ELSE str_int(n \div 10) \o <<Digits[(n % 10) + 1]>>

\* the values from_string is given: a member of the enumeration, an integer
\* or a text
MemberValue(v) == [type |-> "member", number |-> v, text |-> <<>>]
IntValue(n) == [type |-> "int", number |-> n, text |-> <<>>]
StrValue(text) == [type |-> "str", number |-> 0, text |-> text]

\* str(value) for a value that is not a member
str(value) == IF value.type = "int" THEN str_int(value.number) ELSE value.text

\* the names of the members of QuarterName, Half and Month
QuarterNames == <<<<"Q", "1">>, <<"Q", "2">>, <<"Q", "3">>, <<"Q", "4">>>>
HalfNames == <<<<"H", "1">>, <<"H", "2">>>>
MonthNames ==
    <<<<"J", "A", "N", "U", "A", "R", "Y">>,
      <<"F", "E", "B", "R", "U", "A", "R", "Y">>,
      <<"M", "A", "R", "C", "H">>,
      <<"A", "P", "R", "I", "L">>,
      <<"M", "A", "Y">>,
      <<"J", "U", "N", "E">>,
      <<"J", "U", "L", "Y">>,
      <<"A", "U", "G", "U", "S", "T">>,
      <<"S", "E", "P", "T", "E", "M", "B", "E", "R">>,
      <<"O", "C", "T", "O", "B", "E", "R">>,
      <<"N", "O", "V", "E", "M", "B", "E", "R">>,
      <<"D", "E", "C", "E", "M", "B", "E", "R">>>>

\* what from_string returns or raises: the member, or a ValueError whose
\* message is kind followed, for an unrecognised value, by repr(value)
Parsed(v) == [kind |-> "member", value |-> v, message |-> "", input |-> StrValue(<<>>)]
ParseError(message, value) ==
    [kind |-> "error", value |-> None, message |-> message, input |-> value]

\* variant: the case of the text matters
quarter_from_string_caseSensitive(value) ==
    LET text == strip(str(value))
        normalised == text
        digits == IF normalised # <<>> /\ Head(normalised) = "Q" THEN Tail(normalised)
                  ELSE normalised
    IN
    IF value.type = "member" THEN Parsed(value.number)
    ELSE IF text = <<>> THEN ParseError("Quarter value cannot be empty.", StrValue(<<>>))
    ELSE IF \E q \in Quarters : normalised = QuarterNames[q]
         THEN Parsed(CHOOSE q \in Quarters : normalised = QuarterNames[q])
    ELSE IF isdigit(digits) /\ int(digits) \in Quarters THEN Parsed(int(digits))
    ELSE ParseError("Unrecognised quarter value: ", value)

\* QuarterName.from_string
quarter_from_string(value) ==
    LET text == strip(str(value))
        normalised == upper(text)
        digits == IF normalised # <<>> /\ Head(normalised) = "Q" THEN Tail(normalised)
                  ELSE normalised
    IN
    IF value.type = "member" THEN Parsed(value.number)
    ELSE IF text = <<>> THEN ParseError("Quarter value cannot be empty.", StrValue(<<>>))
    ELSE IF \E q \in Quarters : normalised = QuarterNames[q]
         THEN Parsed(CHOOSE q \in Quarters : normalised = QuarterNames[q])
    ELSE IF isdigit(digits) /\ int(digits) \in Quarters THEN Parsed(int(digits))
    ELSE ParseError("Unrecognised quarter value: ", value)

\* Half.from_string
half_from_string(value) ==
    LET text == strip(str(value))
        normalised == upper(text)
        digits == IF normalised # <<>> /\ Head(normalised) = "H" THEN Tail(normalised)
                  ELSE normalised
    IN
    IF value.type = "member" THEN Parsed(value.number)
    ELSE IF text = <<>> THEN ParseError("Half value cannot be empty.", StrValue(<<>>))
    ELSE IF \E h \in Halves : normalised = HalfNames[h]
         THEN Parsed(CHOOSE h \in Halves : normalised = HalfNames[h])
    ELSE IF isdigit(digits) /\ int(digits) \in Halves THEN Parsed(int(digits))
    ELSE ParseError("Unrecognised half value: ", value)

\* Month.from_string
month_from_string(value) ==
    LET text == strip(str(value))
        normalised == upper(text)
        Matches(m) == normalised = MonthNames[m] \/ normalised = SubSeq(MonthNames[m], 1, 3)
    IN
    IF value.type = "member" THEN Parsed(value.number)
    ELSE IF text = <<>> THEN ParseError("Month value cannot be empty.", StrValue(<<>>))
    ELSE IF isdigit(text)
         THEN IF int(text) \in Months THEN Parsed(int(text))
              ELSE ParseError("Unrecognised month value: ", value)
    ELSE IF \E m \in Months : Matches(m) THEN Parsed(CHOOSE m \in Months : Matches(m))
    ELSE ParseError("Unrecognised month value: ", value)

\* the characters of the short texts: a blank, the prefixes in both cases
\* and digits
TextAlphabet == {" ", "q", "Q", "h", "H", "0", "1", "2", "3", "5"}

\* str.lower and str.capitalize, for the texts offered
lower(text) ==
    [i \in 1..Len(text) |->
        IF \E k \in 1..26 : UpperLetters[k] = text[i]
        THEN LowerLetters[CHOOSE k \in 1..26 : UpperLetters[k] = text[i]]
        ELSE text[i]]
capitalize(text) == <<Head(text)>> \o lower(Tail(text))

\* texts built on the month names: each name and its first three letters
\* in upper case, lower case and capitalised, and between blanks; its first
\* two letters; the first four letters of a longer name
MonthTexts ==
    UNION {LET name == MonthNames[m]
               short == SubSeq(name, 1, 3)
           IN {name, lower(name), capitalize(name), short, lower(short), capitalize(short),
               <<" ">> \o lower(name) \o <<" ">>, <<" ">> \o short,
               SubSeq(name, 1, 2)} : m \in Months}
    \cup {SubSeq(MonthNames[m], 1, 4) : m \in {m \in Months : Len(MonthNames[m]) > 4}}

\* the values from_string is called with: every member, the integers
\* around the range, every text of at most MaxTextLen characters, and the
\* texts built on the month names
ParseInputs(members) ==
    {MemberValue(v) : v \in members}
    \cup {IntValue(n) : n \in (0 - 1)..(Cardinality(members) + 1)}
    \cup {StrValue(text) : text \in SeqsUpTo(TextAlphabet, MaxTextLen) \cup MonthTexts}

\* the call cls.from_string(value); from_string keeps no state, so a
\* behaviour follows one call
FromString(cls, value) == [op |-> cls, value |-> value]

ParseQuarter ==
    /\ call = NoCall
    /\ \E value \in ParseInputs(Quarters) :
        /\ call' = FromString("QuarterName.from_string", value)
        /\ result' = quarter_from_string(value)
        /\ UNCHANGED today
        /\ UNCHANGED serviceVars

ParseMonth ==
    /\ call = NoCall
    /\ \E value \in ParseInputs(Months) :
        /\ call' = FromString("Month.from_string", value)
        /\ result' = month_from_string(value)
        /\ UNCHANGED today
        /\ UNCHANGED serviceVars

ParseHalf ==
    /\ call = NoCall
    /\ \E value \in ParseInputs(Halves) :
        /\ call' = FromString("Half.from_string", value)
        /\ result' = half_from_string(value)
        /\ UNCHANGED today
        /\ UNCHANGED serviceVars

NextParsing ==
    \/ ParseQuarter
    \/ ParseMonth
    \/ ParseHalf

\* the three enumerations parsing any value
SpecParsing == InitService /\ [][NextParsing]_vars

(***************************************************************************)
(* Calendar facts the properties are stated against, written as tables     *)
(***************************************************************************)
RelativeOps == {"for_quarter", "for_month", "for_half"}
InYearOps == {"for_quarter_in_year", "for_month_in_year", "for_half_in_year"}
ResolutionOps == RelativeOps \cup InYearOps \cup {"for_year", "for_date", "for_week"}

IsQuarterOp(op) == op \in {"for_quarter", "for_quarter_in_year"}
IsHalfOp(op) == op \in {"for_half", "for_half_in_year"}

QuarterOfMonth == <<1, 1, 1, 2, 2, 2, 3, 3, 3, 4, 4, 4>>
HalfOfMonth == <<1, 1, 1, 1, 1, 1, 2, 2, 2, 2, 2, 2>>

\* ordinal of the period of the operation's kind that contains today
CurrentOrdinal(op) ==
    IF IsQuarterOp(op) THEN QuarterOfMonth[today.month]
    ELSE IF IsHalfOp(op) THEN HalfOfMonth[today.month]
    ELSE today.month

FirstMonthOf(op, p) ==
    IF IsQuarterOp(op) THEN <<1, 4, 7, 10>>[p]
    ELSE IF IsHalfOp(op) THEN <<1, 7>>[p]
    ELSE p

LastMonthOf(op, p) ==
    IF IsQuarterOp(op) THEN <<3, 6, 9, 12>>[p]
    ELSE IF IsHalfOp(op) THEN <<6, 12>>[p]
    ELSE p

MonthLength(y, m) ==
    IF m = 2 /\ IsLeap(y) THEN 29
    ELSE <<31, 28, 31, 30, 31, 30, 31, 31, 30, 31, 30, 31>>[m]

SpanStart(op, p, y) == date(y, FirstMonthOf(op, p), 1)
SpanEnd(op, p, y) == date(y, LastMonthOf(op, p), MonthLength(y, LastMonthOf(op, p)))
FullSpan(op, p, y) == Range(SpanStart(op, p, y), SpanEnd(op, p, y))

(***************************************************************************)
(* Properties of the date-range resolution engine                          *)
(***************************************************************************)

\* C1: a relative month/quarter/half whose ordinal is strictly greater than
\* the ordinal of the period containing today resolves to the full period of
\* the previous year (first day to last day); one whose ordinal is less than
\* or equal resolves to a range starting in today's year.
C1_RelativeRollBack ==
    call.op \in RelativeOps =>
        IF call.period > CurrentOrdinal(call.op)
        THEN result = FullSpan(call.op, call.period, today.year - 1)
        ELSE /\ result.kind = "range"
             /\ result.start_date = SpanStart(call.op, call.period, today.year)

\* a later period was requested and the previous year's full span returned
C1_Witness ==
    /\ call.op \in RelativeOps
    /\ call.period > CurrentOrdinal(call.op)
    /\ result.kind = "range"
    /\ result.start_date.year = today.year - 1
    /\ result.end_date.year = today.year - 1

\* C2: a relative month/quarter/half that contains today resolves to
\* [first day of the period in today's year, today]; any other requested
\* period ends on the natural last day of that period.
C2_InProgressTruncation ==
    call.op \in RelativeOps =>
        /\ result.kind = "range"
        /\ IF call.period = CurrentOrdinal(call.op)
           THEN result = Range(SpanStart(call.op, call.period, today.year), today)
           ELSE result.end_date =
                    SpanEnd(call.op, call.period, result.start_date.year)

\* the current period was requested on a day before its last day and the
\* range stops at today
C2_Witness ==
    /\ call.op \in RelativeOps
    /\ call.period = CurrentOrdinal(call.op)
    /\ result.kind = "range"
    /\ result.end_date = today
    /\ today # SpanEnd(call.op, call.period, today.year)

\* C3 as stated: every range a resolution operation returns ends on or
\* before today, also for a period requested with the explicit current year.
C3_NonFutureAsStated ==
    (call.op \in ResolutionOps /\ result.kind = "range") =>
        DateLE(result.end_date, today)

\* the explicit-year request for the period that contains today
InProgressExplicit ==
    /\ call.op \in InYearOps
    /\ call.year = today.year
    /\ call.period = CurrentOrdinal(call.op)

\* C3 (amended): every range a resolution operation returns starts on or
\* before today, and ends on or before today unless it is the explicit-year
\* request for the month/quarter/half containing today, which returns the
\* full period up to its natural last day.
C3_NonFutureAmended ==
    (call.op \in ResolutionOps /\ result.kind = "range") =>
        /\ DateLE(result.start_date, today)
        /\ IF InProgressExplicit
           THEN result.end_date = SpanEnd(call.op, call.period, today.year)
           ELSE DateLE(result.end_date, today)

\* the current year was requested by itself and the range is cut at today
C3_Witness ==
    /\ call.op = "for_year"
    /\ call.year = today.year
    /\ result.kind = "range"
    /\ result.end_date = today
    /\ today # date(today.year, 12, 31)

\* C4: an explicit-year month/quarter/half fails if and only if the year is
\* below 1, or after today's year, or is today's year with a period ordinal
\* greater than the current period's; otherwise it returns the full span of
\* the period in that year.
C4_ExplicitYear ==
    call.op \in InYearOps =>
        IF \/ call.year < 1
           \/ call.year > today.year
           \/ (call.year = today.year /\ call.period > CurrentOrdinal(call.op))
        THEN result.kind = "error"
        ELSE result = FullSpan(call.op, call.period, call.year)

\* the current period of the current year was accepted and returned in full
C4_Witness ==
    /\ InProgressExplicit
    /\ result = FullSpan(call.op, call.period, call.year)

\* C5: for_year returns [Jan 1, Dec 31] for a past year, [Jan 1, today] for
\* today's year, and fails with "year must be 1 or later." below 1 and with
\* "year must not be in the future." after today's year.
C5_BareYear ==
    call.op = "for_year" =>
        IF call.year < 1 THEN result = ValueError("year must be 1 or later.")
        ELSE IF call.year > today.year
             THEN result = ValueError("year must not be in the future.")
        ELSE IF call.year = today.year
             THEN result = Range(date(call.year, 1, 1), today)
        ELSE result = Range(date(call.year, 1, 1), date(call.year, 12, 31))

\* a past year was requested and returned in full
C5_Witness ==
    /\ call.op = "for_year"
    /\ call.year >= 1
    /\ call.year < today.year
    /\ result = Range(date(call.year, 1, 1), date(call.year, 12, 31))

\* C6: constructing a DateRange with end_date before start_date fails, every
\* other construction succeeds with the given bounds, and every DateRange
\* that exists, however it was produced, has end_date >= start_date.
C6_DateRangeValid ==
    /\ call.op = "DateRange" =>
           IF DateLT(call.other, call.value)
           THEN result = ValueError("end_date must not be earlier than start_date.")
           ELSE result = Range(call.value, call.other)
    /\ result.kind = "range" => ~ DateLT(result.end_date, result.start_date)

\* a direct construction with inverted bounds was rejected
C6_Witness ==
    /\ call.op = "DateRange"
    /\ DateLT(call.other, call.value)
    /\ result.kind = "error"

(***************************************************************************)
(* Properties of the paginated aggregation loops                           *)
(***************************************************************************)
AuthoredIter == "iter_pull_requests_by_author_in_date_range"
ReviewedIter == "iter_pull_requests_reviewed_by_user_in_date_range"
ReviewedCount == "count_pull_requests_reviewed_by_user_in_date_range"

\* t lies in [start_date 00:00:00, end_date 23:59:59] of the operation's range
InWindow(t) ==
    /\ ~ DateLT(t.date, operation.date_range.start_date)
    /\ \/ DateLT(t.date, operation.date_range.end_date)
       \/ /\ t.date = operation.date_range.end_date
          /\ (t.second < 86399 \/ (t.second = 86399 /\ t.micro = 0))

\* the record has a review by the operation's reviewer inside the window
Qualifies(node) ==
    \E i \in 1..Len(node.reviews) :
        /\ node.reviews[i].kind = "node"
        /\ node.reviews[i].author = operation.login
        /\ node.reviews[i].createdAt.kind = "aware"
        /\ InWindow(node.reviews[i].createdAt)

SelfAuthored(node) == node.kind = "pr" /\ node.author = operation.login

\* the record is one the operation in progress has to let through
Expected(node) ==
    /\ node.kind = "pr"
    /\ operation.name # AuthoredIter =>
           /\ ~ (operation.exclude_self_authored /\ SelfAuthored(node))
           /\ Qualifies(node)

\* C7: the first request carries after = null and request k+1 carries the
\* endCursor of response k, which announced a next page; the loop goes on
\* exactly while the last page announced a next page, so an operation that
\* completes on N pages has issued N requests; it has then processed the
\* non-null records of all pages in page order, skipping null placeholders.
C7_PaginationComplete ==
    /\ requests # <<>> => requests[1].after = None
    /\ \A k \in 1..(Len(requests) - 1) :
           /\ k <= Len(responses)
           /\ responses[k].wellformed
           /\ responses[k].hasNextPage
           /\ requests[k + 1].after = responses[k].endCursor
    /\ (status = "running" /\ requests # <<>>) =>
           /\ Len(responses) = Len(requests)
           /\ responses[Len(responses)].hasNextPage
           /\ cursor = responses[Len(responses)].endCursor
    /\ status = "done" =>
           /\ Len(responses) = Len(requests)
           /\ ~ responses[Len(responses)].hasNextPage
           /\ IF operation.name = ReviewedCount
              THEN total = Len(SelectSeq(served, Expected))
              ELSE yielded = SelectSeq(served, Expected)

\* an enumeration completed on three pages with three requests, the third
\* carrying the second page's cursor, and passed over a null placeholder
C7_Witness ==
    /\ status = "done"
    /\ operation.name = AuthoredIter
    /\ Len(requests) = 3
    /\ requests[3].after = 2
    /\ \E i \in 1..Len(served) : served[i].kind = "null"
    /\ Len(yielded) >= 3

\* no review edge of the record has a null author object or a timestamp
\* without offset, and the record's own author object is not null
WellShaped(node) ==
    /\ node.author # NullAuthor
    /\ \A i \in 1..Len(node.reviews) :
           /\ node.reviews[i].author # NullAuthor
           /\ node.reviews[i].createdAt.kind # "naive"

\* C8: in reviewed-by count and enumerate a record is let through if and
\* only if one of its reviews is by the reviewer with a timestamp inside
\* [start 00:00:00, end 23:59:59] UTC, bounds included; it is counted once.
C8_ReviewWindow ==
    (operation.name \in {ReviewedIter, ReviewedCount} /\ requests # <<>>) =>
        /\ (\A i \in 1..Len(served) : WellShaped(served[i])) => status = "done"
        /\ status = "done" =>
               \A i \in 1..Len(served) :
                   IF operation.name = ReviewedCount
                   THEN total = (IF Expected(served[i]) THEN 1 ELSE 0)
                   ELSE yielded = (IF Expected(served[i]) THEN <<served[i]>> ELSE <<>>)

\* the only review by the reviewer is one second after the end of the
\* window and the count is zero
C8_Witness ==
    /\ operation.name = ReviewedCount
    /\ status = "done"
    /\ total = 0
    /\ \E i \in 1..Len(served) :
           /\ served[i].kind = "pr"
           /\ served[i].author = OtherLogin
           /\ served[i].reviews =
                  <<Review(Login, DateTime("aware", NextDay(operation.date_range.end_date), 0, 0))>>

\* C9: with exclude_self_authored a record whose author is the reviewer is
\* never yielded nor counted, whatever its reviews, and does not fail the
\* operation; without the flag such a record with a qualifying review is
\* yielded and counted.
C9_SelfExclusion ==
    operation.name \in {ReviewedIter, ReviewedCount} =>
        /\ operation.exclude_self_authored =>
               /\ \A j \in 1..Len(yielded) : ~ SelfAuthored(yielded[j])
               /\ total <= Cardinality({i \in 1..Len(served) :
                                           served[i].kind = "pr" /\ ~ SelfAuthored(served[i])})
               /\ (requests # <<>> /\ \A i \in 1..Len(served) : SelfAuthored(served[i])) =>
                      status = "done"
        /\ (~ operation.exclude_self_authored /\ status = "done") =>
               \A i \in 1..Len(served) :
                   (SelfAuthored(served[i]) /\ Qualifies(served[i])) =>
                       IF operation.name = ReviewedCount
                       THEN total >= 1
                       ELSE \E j \in 1..Len(yielded) : yielded[j] = served[i]

\* a record of the reviewer's own with a qualifying review was served with
\* the flag set, and nothing was yielded or counted
C9_Witness ==
    /\ operation.name \in {ReviewedIter, ReviewedCount}
    /\ operation.exclude_self_authored
    /\ status = "done"
    /\ \E i \in 1..Len(served) : SelfAuthored(served[i]) /\ Qualifies(served[i])
    /\ yielded = <<>>
    /\ total = 0

\* C10: a page that announces a next page without an endCursor (null or
\* absent) makes the operation fail with MalformedResponseError at that
\* page; no further request follows it.
C10_MissingCursorIsError ==
    \A k \in 1..Len(responses) :
        (/\ responses[k].wellformed
         /\ responses[k].hasNextPage
         /\ responses[k].endCursor \in {None, Absent}) =>
            /\ status = "error"
            /\ error = "MalformedResponseError"
            /\ Len(requests) = k

\* C11: in every paginated aggregation operation a response without a
\* search block (missing or null) or without pageInfo (missing or null)
\* fails the operation with MalformedResponseError and with no other class.
C11_ShapeValidation ==
    \A k \in 1..Len(responses) :
        ~ responses[k].wellformed =>
            /\ status = "error"
            /\ error = "MalformedResponseError"
            /\ Len(requests) = k

(***************************************************************************)
(* Properties of the authored count and of count_member_statistics        *)
(***************************************************************************)
AuthoredCount == "count_pull_requests_by_author_in_date_range"
Orchestrator == "count_member_statistics"

\* the positions of the input list that hold the first occurrence of a
\* login that is not blank
FirstPositions(ms) ==
    {i \in 1..Len(ms) : ms[i] # "" /\ \A j \in 1..(i - 1) : ms[j] # ms[i]}

\* the n-th of these positions
NthFirstPosition(ms, n) ==
    CHOOSE i \in FirstPositions(ms) : Cardinality({j \in FirstPositions(ms) : j <= i}) = n

\* the count the remote gave for the authored query of login
RemoteCount(login) ==
    LET k == CHOOSE k \in 1..Len(requests) :
                 requests[k].login = login /\ requests[k].query = "COUNT_QUERY"
    IN responses[k].issueCount

\* the record was reviewed by login inside the window of the operation
ReviewedBy(node, login) ==
    /\ node.kind = "pr"
    /\ ~ (operation.exclude_self_authored /\ node.author = login)
    /\ \E i \in 1..Len(node.reviews) :
           /\ node.reviews[i].kind = "node"
           /\ node.reviews[i].author = login
           /\ node.reviews[i].createdAt.kind = "aware"
           /\ InWindow(node.reviews[i].createdAt)

\* the number of records, over all pages served for the reviewed count of
\* login, that were reviewed by login inside the window
ReviewedTally(login) ==
    Cardinality({ki \in UNION {{<<k, i>> : i \in 1..Len(responses[k].nodes)} :
                                 k \in {k \in 1..Len(requests) :
                                           /\ requests[k].login = login
                                           /\ requests[k].query = "REVIEW_COUNT_QUERY"}} :
                    ReviewedBy(responses[ki[1]].nodes[ki[2]], login)})

IsFailure(k) ==
    \/ responses[k].fail # ""
    \/ responses[k].search # "present"
    \/ requests[k].query = "COUNT_QUERY" /\ responses[k].issueCount = None
    \/ requests[k].query # "COUNT_QUERY" /\ responses[k].pageInfo # "present"

\* C13: in count_member_statistics a failed query ends the operation with
\* that error: it is the last request, nothing is returned (the statistics
\* of earlier members included), and no request was sent for a later member.
C13_FailFast ==
    operation.name = Orchestrator =>
        /\ \A k \in 1..Len(responses) :
               IsFailure(k) =>
                   /\ status = "error"
                   /\ error = (IF responses[k].fail # "" THEN responses[k].fail
                               ELSE "MalformedResponseError")
                   /\ k = Len(requests)
                   /\ returned = NoReturn
                   /\ \A j \in 1..Len(requests) :
                          \E a, b \in FirstPositions(operation.members) :
                              /\ operation.members[a] = requests[j].login
                              /\ operation.members[b] = requests[k].login
                              /\ a <= b
        /\ Len(responses) = Len(requests)

\* the reviewed count of the second member failed after the statistics of
\* the first had been computed, and nothing was returned
C13_Witness ==
    /\ operation.name = Orchestrator
    /\ status = "error"
    /\ Len(statistics) = 1
    /\ requests # <<>>
    /\ requests[Len(requests)].query = "REVIEW_COUNT_QUERY"
    /\ responses[Len(responses)].fail = "GitHubClientError"
    /\ returned = NoReturn

\* C14: count_member_statistics called with a list that holds no login
\* besides blanks returns (None, []) and sends no request.
C14_EmptyMembers ==
    (operation.name = Orchestrator /\ \A i \in 1..Len(operation.members) :
                                          operation.members[i] = "") =>
        /\ status = "done"
        /\ error = ""
        /\ returned = Returned(NoResult, <<>>)
        /\ requests = <<>>

\* a list of two blanks was given and (None, []) returned
C14_Witness ==
    /\ operation.name = Orchestrator
    /\ operation.members = <<"", "">>
    /\ status = "done"
    /\ returned = Returned(NoResult, <<>>)
    /\ requests = <<>>

(***************************************************************************)
(* Properties of the period selection                                      *)
(***************************************************************************)
\* the number of month, quarter and half given
PeriodsGiven(sel) ==
    (IF sel.month # None THEN 1 ELSE 0) + (IF sel.quarter # None THEN 1 ELSE 0)
    + (IF sel.half # None THEN 1 ELSE 0)

\* a date alone, the week flag alone, a year alone, or exactly one of
\* month, quarter and half with or without a year
SelectionShape(sel) ==
    \/ sel.on_date # NoDate /\ ~ sel.week /\ sel.year = None /\ PeriodsGiven(sel) = 0
    \/ sel.on_date = NoDate /\ sel.week /\ sel.year = None /\ PeriodsGiven(sel) = 0
    \/ sel.on_date = NoDate /\ ~ sel.week /\ sel.year # None /\ PeriodsGiven(sel) = 0
    \/ sel.on_date = NoDate /\ ~ sel.week /\ PeriodsGiven(sel) = 1

\* a month, quarter or half that cannot be parsed, a year below 1 or after
\* today's, a period of today's year that starts after today, a date after
\* today
ValueRejected(sel) ==
    \/ sel.month # None /\ sel.month \notin 1..12
    \/ sel.quarter # None /\ sel.quarter \notin 1..4
    \/ sel.half # None /\ sel.half \notin 1..2
    \/ sel.year # None /\ (sel.year < 1 \/ sel.year > today.year)
    \/ /\ sel.year = today.year
       /\ \/ sel.month # None /\ sel.month > today.month
          \/ sel.quarter # None /\ sel.quarter > QuarterOfMonth[today.month]
          \/ sel.half # None /\ sel.half > HalfOfMonth[today.month]
    \/ sel.on_date # NoDate /\ DateLT(today, sel.on_date)

Rejected(sel) == ~ SelectionShape(sel) \/ ValueRejected(sel)

\* count_member_statistics was called with no login besides blanks
NoMembers ==
    /\ operation.name = Orchestrator
    /\ \A i \in 1..Len(operation.members) : operation.members[i] = ""

\* C15 as stated: every operation called with a rejected selection of
\* periods raises the validation error, with no request sent.
C15_ValidationFirstAsStated ==
    (operation.name # "none" /\ Rejected(operation.selectors)) =>
        /\ status = "error"
        /\ error = "ValueError"
        /\ requests = <<>>

\* C15 (amended): an operation called with a rejected selection of periods
\* sends no request and raises the validation error, except that
\* count_member_statistics called without any non-blank login returns
\* (None, []) without looking at the selection.
C15_ValidationFirstAmended ==
    (operation.name # "none" /\ Rejected(operation.selectors)) =>
        /\ requests = <<>>
        /\ IF NoMembers
           THEN status = "done" /\ returned = Returned(NoResult, <<>>)
           ELSE /\ status = "error"
                /\ error = "ValueError"
                /\ operation.date_range.kind = "error"
                /\ returned = NoReturn

\* count_member_statistics was called for a login with tomorrow's date and
\* raised before any request
C15_Witness ==
    /\ operation.name = Orchestrator
    /\ operation.members = <<Login>>
    /\ operation.selectors = Selector(None, None, None, None, NextDay(today), FALSE)
    /\ status = "error"
    /\ error = "ValueError"
    /\ requests = <<>>

\* the messages of the four checks on the combination of selectors
SelectionMessage(sel) ==
    IF sel.on_date = NoDate /\ ~ sel.week /\ sel.year = None /\ PeriodsGiven(sel) = 0
    THEN "At least one of year, quarter, month, half, week or date is required."
    ELSE IF sel.on_date # NoDate
    THEN "date cannot be combined with year, quarter, month, half, or week."
    ELSE IF sel.week
    THEN "week cannot be combined with year, quarter, month, half, or date."
    ELSE "Specify only one of month, quarter or half."

SelectionMessages ==
    {"At least one of year, quarter, month, half, week or date is required.",
     "date cannot be combined with year, quarter, month, half, or week.",
     "week cannot be combined with year, quarter, month, half, or date.",
     "Specify only one of month, quarter or half."}

\* C16: a combination of selectors passes the period-selection validation
\* if and only if it is a date alone, the week flag alone, a year alone, or
\* exactly one of month, quarter and half with or without a year; any other
\* combination raises the validation error of its case, and an accepted
\* combination of values that are not rejected resolves to a range.
C16_SelectionValidation ==
    (operation.name # "none" /\ ~ NoMembers) =>
        /\ ~ SelectionShape(operation.selectors) =>
               /\ status = "error"
               /\ error = "ValueError"
               /\ operation.date_range = ValueError(SelectionMessage(operation.selectors))
        /\ SelectionShape(operation.selectors) =>
               /\ operation.date_range.message \notin SelectionMessages
               /\ ~ ValueRejected(operation.selectors) =>
                      operation.date_range.kind = "range"

\* a date was given together with the week flag and rejected
C16_Witness ==
    /\ operation.name # "none"
    /\ operation.selectors = Selector(None, None, None, None, today, TRUE)
    /\ status = "error"
    /\ operation.date_range =
           ValueError("date cannot be combined with year, quarter, month, half, or week.")

(***************************************************************************)
(* Properties of the review timestamps and of the authored count           *)
(***************************************************************************)
\* no author object of the record or of its reviews is null
AuthorsGiven(node) ==
    /\ node.author # NullAuthor
    /\ \A i \in 1..Len(node.reviews) : node.reviews[i].author # NullAuthor

\* C17: in reviewed-by count and enumerate a review by the reviewer whose
\* createdAt is missing, malformed or without offset never raises and never
\* makes the record match: the operation completes and the record is let
\* through exactly when another of its reviews qualifies.
C17_MalformedTimestampsSwallowed ==
    (operation.name \in {ReviewedIter, ReviewedCount} /\ requests # <<>>) =>
        \A i \in 1..Len(served) :
            AuthorsGiven(served[i]) =>
                /\ status = "done"
                /\ IF operation.name = ReviewedCount
                   THEN total = (IF Expected(served[i]) THEN 1 ELSE 0)
                   ELSE yielded = (IF Expected(served[i]) THEN <<served[i]>> ELSE <<>>)

\* C18: count_pull_requests_by_author_in_date_range sends exactly one
\* request, COUNT_QUERY without a cursor, and returns the remote count as
\* it is; count_member_statistics sends one such request per member.
C18_AuthoredCountOneRoundTrip ==
    /\ (operation.name = AuthoredCount /\ status = "running") => requests = <<>>
    /\ (operation.name = AuthoredCount /\ status = "error"
        /\ operation.date_range.kind = "range") => Len(requests) = 1
    /\ (operation.name = AuthoredCount /\ status = "done") =>
           /\ Len(requests) = 1
           /\ requests[1].query = "COUNT_QUERY"
           /\ requests[1].after = Absent
           /\ returned = Returned(operation.date_range, responses[1].issueCount)
    /\ operation.name = Orchestrator =>
           /\ \A k \in 1..Len(requests) :
                  requests[k].query = "COUNT_QUERY" =>
                      /\ requests[k].after = Absent
                      /\ \A j \in 1..Len(requests) :
                             (requests[j].query = "COUNT_QUERY"
                              /\ requests[j].login = requests[k].login) => j = k
           /\ \A n \in 1..Len(statistics) :
                  statistics[n].authored_count = RemoteCount(statistics[n].login)

\* the remote counted 1001 pull requests and that is what was returned
C18_Witness ==
    /\ operation.name = AuthoredCount
    /\ status = "done"
    /\ Len(requests) = 1
    /\ returned.value = 1001

(***************************************************************************)
(* Properties of the single day and of the trailing week                   *)
(***************************************************************************)
\* C19: for_date(day) returns [day, day] for every day up to and including
\* today and fails with "date must not be in the future." exactly when day
\* is after today.
C19_SingleDay ==
    call.op = "for_date" =>
        IF \/ call.value.year > today.year
           \/ call.value.year = today.year /\ call.value.month > today.month
           \/ /\ call.value.year = today.year
              /\ call.value.month = today.month
              /\ call.value.day > today.day
        THEN result = ValueError("date must not be in the future.")
        ELSE result = Range(call.value, call.value)

\* today itself was asked for and returned
C19_Witness ==
    /\ call.op = "for_date"
    /\ call.value = today
    /\ result = Range(today, today)

\* the number of the day within its year
DayOfYear(d) ==
    <<0, 31, 59, 90, 120, 151, 181, 212, 243, 273, 304, 334>>[d.month]
    + (IF d.month > 2 /\ MonthLength(d.year, 2) = 29 THEN 1 ELSE 0) + d.day

\* the days from s to e, for dates of one year or of two years in a row
DaysFromTo(s, e) ==
    IF s.year = e.year THEN DayOfYear(e) - DayOfYear(s)
    ELSE DayOfYear(e) + (DayOfYear(date(s.year, 12, 31)) - DayOfYear(s))

\* C20: for_week returns a range that ends on today and starts six days
\* earlier, seven days in all, also across the turn of a month or a year.
C20_TrailingWeek ==
    call.op = "for_week" =>
        /\ result.kind = "range"
        /\ result.end_date = today
        /\ result.start_date.year \in {today.year - 1, today.year}
        /\ result.start_date.month \in Months
        /\ result.start_date.day \in 1..MonthLength(result.start_date.year,
                                                    result.start_date.month)
        /\ DaysFromTo(result.start_date, result.end_date) = 6

\* the week ending early in January started in the previous year
C20_Witness ==
    /\ call.op = "for_week"
    /\ result.kind = "range"
    /\ result.end_date = today
    /\ result.start_date.year = today.year - 1
    /\ result.start_date.month = 12

(***************************************************************************)
(* Construction and the page size of requests                              *)
(***************************************************************************)
\* the requests that ask for a page: every request but the authored count
Paginated(k) == requests[k].query # "COUNT_QUERY"

\* C24: the constructor succeeds exactly when 1 <= page_size <= 100 and
\* otherwise raises a ValueError and leaves no service behind; every
\* request for a page carries the page size the service was constructed
\* with, which lies within 1..100.
C24_PageSizeBound ==
    (call # NoCall) =>
        /\ (status # "error" \/ requests # <<>> \/ operation # NoOp) <=>
               (1 <= call.page_size /\ call.page_size <= 100)
        /\ ~ (1 <= call.page_size /\ call.page_size <= 100) =>
               /\ status = "error"
               /\ error = "ValueError"
               /\ page_size = None
        /\ \A k \in 1..Len(requests) :
               Paginated(k) =>
                   /\ requests[k].pageSize = call.page_size
                   /\ requests[k].pageSize \in 1..100

\* a service constructed with the largest page size has asked for two pages
C24_Witness ==
    /\ call = Constructor(100)
    /\ Len(requests) = 2
    /\ requests[2].pageSize = 100
    /\ requests[2].after # None

(***************************************************************************)
(* Listing team members                                                    *)
(***************************************************************************)
TeamOps == {"iter_team_members", "list_team_members"}

\* a response the listing cannot use: a level of the answer is missing, a
\* next page is announced without a cursor, or a member has no login
BrokenTeamPage(data) ==
    \/ data.organization = "null"
    \/ data.team = "null"
    \/ data.members = "null"
    \/ data.entries = "null"
    \/ data.pageInfo = "null"
    \/ data.indicator = "null"
    \/ data.hasNextPage /\ data.endCursor = None
    \/ \E i \in 1..Len(data.nodes) : data.nodes[i].login \in {NullLogin, ""}

\* C21: the team listing sends its first request with after = null and
\* each further one with the endCursor of the page before, which announced
\* a next page; it stops at the page that announces none, having yielded
\* the members of every page in page order; a response that misses the
\* organisation, team, members, member entries, pagination info or next-page
\* indicator, announces a next page without a cursor or holds a member
\* without login raises MalformedResponseError and is the last one asked for.
C21_TeamPagination ==
    (operation.name \in TeamOps) =>
        /\ requests # <<>> => requests[1].after = None
        /\ Len(responses) = Len(requests)
        /\ \A k \in 1..(Len(requests) - 1) :
               /\ responses[k].fail = ""
               /\ ~ BrokenTeamPage(responses[k])
               /\ responses[k].hasNextPage
               /\ requests[k + 1].after = responses[k].endCursor
        /\ \A k \in 1..Len(responses) :
               (responses[k].fail = "" /\ BrokenTeamPage(responses[k])) =>
                   /\ k = Len(requests)
                   /\ status = "error"
                   /\ error = "MalformedResponseError"
        /\ status = "done" => ~ responses[Len(responses)].hasNextPage
        /\ (status = "running" /\ requests # <<>>) => responses[Len(responses)].hasNextPage
        /\ status \in {"running", "done"} =>
               /\ Len(yielded) = Len(served)
               /\ \A i \in 1..Len(served) : yielded[i].login = served[i].login
        /\ (status = "done" /\ operation.name = "list_team_members") =>
               returned = Returned(NoResult, yielded)
        /\ (status # "done") => returned = NoReturn

\* three pages were asked for, the third with the cursor of the second, and
\* the members of the first two pages were yielded in page order
C21_Witness ==
    /\ operation.name = "iter_team_members"
    /\ status = "done"
    /\ Len(requests) = 3
    /\ requests[3].after = 2
    /\ Len(yielded) = 2
    /\ yielded[1].login = OtherLogin
    /\ yielded[2].login = Login
    /\ Len(responses[1].nodes) = 1

(***************************************************************************)
(* The author of a summary                                                 *)
(***************************************************************************)
\* C22: the summary built from a yielded record carries the login of the
\* record's author object, and "unknown" only when the record has no author
\* (the key is missing or null).
C22_SummaryAuthor ==
    (operation.name \in {AuthoredIter, ReviewedIter}) =>
        \A i \in 1..Len(yielded) :
            summary_author(yielded[i]) =
                IF yielded[i].author \in {NullAuthor, AbsentAuthor} THEN "unknown"
                ELSE yielded[i].author

(***************************************************************************)
(* Parsing the period enumerations                                         *)
(***************************************************************************)
ParseOps == {"QuarterName.from_string", "Month.from_string", "Half.from_string"}

\* the members an enumeration has, and what its messages begin with
MembersOf(cls) ==
    IF cls = "QuarterName.from_string" THEN Quarters
    ELSE IF cls = "Month.from_string" THEN Months
    ELSE Halves
EmptyMessage(cls) ==
    IF cls = "QuarterName.from_string" THEN "Quarter value cannot be empty."
    ELSE IF cls = "Month.from_string" THEN "Month value cannot be empty."
    ELSE "Half value cannot be empty."
UnrecognisedMessage(cls) ==
    IF cls = "QuarterName.from_string" THEN "Unrecognised quarter value: "
    ELSE IF cls = "Month.from_string" THEN "Unrecognised month value: "
    ELSE "Unrecognised half value: "

\* t is a numeral whose value is v
Numeral(t, v) == isdigit(t) /\ int(t) = v

\* t, in upper case and without surrounding blanks, is a form of member v:
\* its numeral; for quarters and halves the prefix followed by the numeral;
\* for months the name or its first three letters
AcceptedAs(cls, t, v) ==
    \/ Numeral(t, v)
    \/ /\ cls = "QuarterName.from_string"
       /\ t # <<>>
       /\ Head(t) = "Q"
       /\ Numeral(Tail(t), v)
    \/ /\ cls = "Half.from_string"
       /\ t # <<>>
       /\ Head(t) = "H"
       /\ Numeral(Tail(t), v)
    \/ /\ cls = "Month.from_string"
       /\ t \in {MonthNames[v], SubSeq(MonthNames[v], 1, 3)}

\* the name of member v
NameOf(cls, v) ==
    IF cls = "QuarterName.from_string" THEN QuarterNames[v]
    ELSE IF cls = "Month.from_string" THEN MonthNames[v]
    ELSE HalfNames[v]

\* C23: from_string returns a member unchanged; a text is read without its
\* surrounding blanks and whatever its case: a numeral in range, the
\* prefixed short form and, for months, the name or its first three letters
\* give the member, and so do the name and the numeral of every member; an
\* empty text fails, and every other value fails with the unrecognised-value
\* error that names the value as it was given.
C23_FromString ==
    (call.op \in ParseOps) =>
        LET value == call.value
            cls == call.op
            t == upper(strip(str(value)))
        IN
        /\ value.type = "member" => result = Parsed(value.number)
        /\ value.type # "member" =>
               /\ t = <<>> =>
                      /\ result.kind = "error"
                      /\ result.message = EmptyMessage(cls)
               /\ \A v \in MembersOf(cls) :
                      AcceptedAs(cls, t, v) => result = Parsed(v)
               /\ (t # <<>> /\ \A v \in MembersOf(cls) : ~ AcceptedAs(cls, t, v)) =>
                      /\ result.kind = "error"
                      /\ result.message = UnrecognisedMessage(cls)
                      /\ result.input = value
               /\ \A v \in MembersOf(cls) :
                      \/ value.type = "int" /\ value.number = v
                      \/ value.type = "str" /\ value.text = NameOf(cls, v)
                      \/ value.type = "str" /\ value.text = str_int(v)
                      => result = Parsed(v)

\* " q2" was parsed as the second quarter
C23_Witness ==
    /\ call.op = "QuarterName.from_string"
    /\ call.value = StrValue(<<" ", "q", "2">>)
    /\ result = Parsed(2)

(***************************************************************************)
(* The order of the calls of count_member_statistics                       *)
(***************************************************************************)
\* the position at which login is first seen in the input list
FirstSeen(login) ==
    CHOOSE i \in FirstPositions(operation.members) : operation.members[i] = login

\* C26: count_member_statistics sends one request at a time, each after
\* the one before has returned. The requests of one identity follow each
\* other, the identities in the order in which they are first seen, none
\* left out; an identity's first request is its one authored count, the
\* others the pages of its reviewed count, from after = null on with the
\* cursor of the page before; the next identity starts only after the last
\* page of the one before.
C26_CallOrder ==
    operation.name = Orchestrator =>
        /\ Len(responses) = Len(requests)
        /\ \A k \in 1..Len(requests) :
               /\ \E i \in FirstPositions(operation.members) :
                      operation.members[i] = requests[k].login
               /\ requests[k].query \in {"COUNT_QUERY", "REVIEW_COUNT_QUERY"}
               /\ requests[k].query = "COUNT_QUERY" <=>
                      (k = 1 \/ requests[k - 1].login # requests[k].login)
        /\ requests # <<>> =>
               FirstSeen(requests[1].login) = NthFirstPosition(operation.members, 1)
        /\ \A j, k \in 1..Len(requests) :
               j < k => FirstSeen(requests[j].login) <= FirstSeen(requests[k].login)
        /\ \A k \in 2..Len(requests) :
               LET before == requests[k - 1]
                   answer == responses[k - 1]
               IN
               /\ before.login # requests[k].login =>
                      /\ before.query = "REVIEW_COUNT_QUERY"
                      /\ answer.fail = ""
                      /\ ~ answer.hasNextPage
                      /\ ~ \E i \in FirstPositions(operation.members) :
                               /\ FirstSeen(before.login) < i
                               /\ i < FirstSeen(requests[k].login)
               /\ (requests[k].query = "REVIEW_COUNT_QUERY"
                   /\ before.query = "COUNT_QUERY") =>
                      /\ requests[k].after = None
                      /\ answer.fail = ""
                      /\ answer.issueCount # None
               /\ (requests[k].query = "REVIEW_COUNT_QUERY"
                   /\ before.query = "REVIEW_COUNT_QUERY") =>
                      /\ answer.fail = ""
                      /\ answer.hasNextPage
                      /\ requests[k].after = answer.endCursor
        /\ status = "done" =>
               /\ requests # <<>> => ~ responses[Len(responses)].hasNextPage
               /\ \A i \in FirstPositions(operation.members) :
                      \E k \in 1..Len(requests) : requests[k].login = operation.members[i]

\* the authored count and two pages of the first member, then the authored
\* count and a page of the second
C26_Witness ==
    /\ operation.name = Orchestrator
    /\ operation.members = <<OtherLogin, Login>>
    /\ Len(requests) = 5
    /\ requests[1].query = "COUNT_QUERY"
    /\ requests[3].login = OtherLogin
    /\ requests[3].after # None
    /\ requests[4].query = "COUNT_QUERY"
    /\ requests[4].login = Login
    /\ requests[5].query = "REVIEW_COUNT_QUERY"

(***************************************************************************)
(* The reviewed count against the reviewed enumeration                     *)
(***************************************************************************)
\* what the loop of the reviewed enumeration lets through of the records
\* served to the operation in progress, and what the loop of the reviewed
\* count does
EnumeratedOfServed ==
    iter_reviewed_nodes(served, 1, <<>>, operation.login, operation.exclude_self_authored,
                        DateTime("aware", operation.date_range.start_date, 0, 0),
                        DateTime("aware", operation.date_range.end_date, EndOfDaySecond, 0))
CountedOfServed ==
    count_reviewed_nodes(served, 1, <<>>, operation.login, operation.exclude_self_authored,
                         DateTime("aware", operation.date_range.start_date, 0, 0),
                         DateTime("aware", operation.date_range.end_date, EndOfDaySecond, 0))

\* C27: over the same well-formed pages, for the same reviewer, window and
\* flag, the reviewed count has counted as many records as the reviewed
\* enumeration yields and the enumeration has yielded as many as the count
\* counts; both send one request per page, the first with after = null and
\* each further one with the cursor of the page before, and stop at the
\* first page that announces no next page.
C27_CountAgreesWithEnumeration ==
    (operation.name \in {ReviewedIter, ReviewedCount} /\ status \in {"running", "done"}) =>
        /\ EnumeratedOfServed.err = ""
        /\ CountedOfServed.err = ""
        /\ operation.name = ReviewedCount =>
               /\ total = Len(EnumeratedOfServed.out)
               /\ yielded = <<>>
        /\ operation.name = ReviewedIter =>
               /\ Len(yielded) = Len(CountedOfServed.out)
               /\ yielded = CountedOfServed.out
        /\ Len(requests) = Len(responses)
        /\ \A k \in 1..Len(requests) :
               /\ responses[k].wellformed
               /\ requests[k].after = (IF k = 1 THEN None ELSE responses[k - 1].endCursor)
               /\ responses[k].hasNextPage <=> (k < Len(requests) \/ status = "running")

\* with the flag set, a count over two pages that held a record of the
\* reviewer's own and a null placeholder has counted two records
C27_Witness ==
    /\ operation.name = ReviewedCount
    /\ operation.exclude_self_authored
    /\ status = "done"
    /\ Len(requests) = 2
    /\ total = 2
    /\ \E i \in 1..Len(served) : served[i].kind = "null"
    /\ \E i \in 1..Len(served) : SelfAuthored(served[i])

(***************************************************************************)
(* Which range a selection of periods resolves to                          *)
(***************************************************************************)
\* the kind of period a selection names and its ordinal
PeriodKind(sel) ==
    IF sel.half # None THEN "for_half"
    ELSE IF sel.month # None THEN "for_month"
    ELSE "for_quarter"
PeriodOrdinal(sel) ==
    IF sel.half # None THEN sel.half
    ELSE IF sel.month # None THEN sel.month
    ELSE sel.quarter

\* the range of the claim for an accepted selection
DispatchedRange(sel) ==
    LET kind == PeriodKind(sel)
        p == PeriodOrdinal(sel)
    IN
    IF sel.week THEN Range(AddDays(today, 0 - 6), today)
    ELSE IF sel.on_date # NoDate THEN Range(sel.on_date, sel.on_date)
    ELSE IF PeriodsGiven(sel) = 0
         THEN IF sel.year = today.year THEN Range(date(sel.year, 1, 1), today)
              ELSE Range(date(sel.year, 1, 1), date(sel.year, 12, 31))
    ELSE IF sel.year # None THEN FullSpan(kind, p, sel.year)
    ELSE IF p > CurrentOrdinal(kind) THEN FullSpan(kind, p, today.year - 1)
    ELSE IF p = CurrentOrdinal(kind) THEN Range(SpanStart(kind, p, today.year), today)
    ELSE FullSpan(kind, p, today.year)

\* C28: an accepted selection resolves to the trailing week when the week
\* flag is set, to the single day when a date is given, to the bare-year
\* range when only a year is given, to the full period of that year when a
\* month, quarter or half is given with a year, and to the relative range
\* (rolled back, or cut at today) when one is given without a year.
C28_SelectorDispatch ==
    (operation.name # "none" /\ operation.date_range.kind = "range") =>
        operation.date_range = DispatchedRange(operation.selectors)

\* the second half was selected without a year early in January and the
\* range is the second half of the year before
C28_Witness ==
    /\ operation.name = ReviewedCount
    /\ operation.selectors = Selector(2, None, None, None, NoDate, FALSE)
    /\ operation.date_range = Range(date(today.year - 1, 7, 1), date(today.year - 1, 12, 31))

(***************************************************************************)
(* Null authors in the review queries                                      *)
(***************************************************************************)
\* no review of the record carries a timestamp without offset
OffsetsGiven(node) ==
    \A i \in 1..Len(node.reviews) : node.reviews[i].createdAt.kind # "naive"

\* C29: in reviewed-by count and enumerate a record whose author is null is
\* not self-authored and a review whose author is null is not one of the
\* reviewer's: the operation completes with the records let through that
\* qualify otherwise, and whatever it raises is a transport, malformed-
\* result, validation or parse error.
C29_NullAuthorsTolerated ==
    (operation.name \in {ReviewedIter, ReviewedCount} /\ requests # <<>>
     /\ \A i \in 1..Len(served) : OffsetsGiven(served[i])) =>
        /\ error \in {"", "GitHubClientError", "MalformedResponseError", "ValueError"}
        /\ status = "done"
        /\ IF operation.name = ReviewedCount
           THEN total = Len(SelectSeq(served, Expected))
           ELSE yielded = SelectSeq(served, Expected)

(***************************************************************************)
(* The periods of a completed year                                         *)
(***************************************************************************)
\* the Gregorian leap years, and the day after a day, from a table
LeapYear(y) == y % 4 = 0 /\ (y % 100 # 0 \/ y % 400 = 0)
DayAfter(d) ==
    LET length == IF d.month = 2 /\ LeapYear(d.year) THEN 29
                  ELSE <<31, 28, 31, 30, 31, 30, 31, 31, 30, 31, 30, 31>>[d.month]
    IN
    IF d.day < length THEN date(d.year, d.month, d.day + 1)
    ELSE IF d.month < 12 THEN date(d.year, d.month + 1, 1)
    ELSE date(d.year + 1, 1, 1)

\* how many periods of the operation's kind a year has, and the range the
\* operation gives for period p of year y
PeriodsInYear(op) == IF IsQuarterOp(op) THEN 4 ELSE IF IsHalfOp(op) THEN 2 ELSE 12
PeriodRange(op, p, y) ==
    IF IsQuarterOp(op) THEN for_quarter_in_year(p, y)
    ELSE IF IsHalfOp(op) THEN for_half_in_year(p, y)
    ELSE for_month_in_year(p, y)

\* C30: in a completed year y (1 <= y < today.year) the quarters, the
\* halves and the months each partition the year: the first starts on
\* 1 January, each next one starts the day after the one before ends, the
\* last ends on 31 December, and no two overlap; a half is its two quarters
\* put together; and February ends on the 29th exactly in leap years.
C30_PeriodsPartitionYear ==
    /\ (call.op \in InYearOps /\ 1 <= call.year /\ call.year < today.year) =>
           LET y == call.year
               p == call.period
               last == PeriodsInYear(call.op)
           IN
           /\ result.kind = "range"
           /\ DateLE(result.start_date, result.end_date)
           /\ result.start_date.year = y
           /\ result.end_date.year = y
           /\ p = 1 => result.start_date = date(y, 1, 1)
           /\ p = last => result.end_date = date(y, 12, 31)
           /\ p < last =>
                  PeriodRange(call.op, p + 1, y).start_date = DayAfter(result.end_date)
           /\ \A q \in 1..last :
                  q # p =>
                      \/ DateLT(PeriodRange(call.op, q, y).end_date, result.start_date)
                      \/ DateLT(result.end_date, PeriodRange(call.op, q, y).start_date)
           /\ IsHalfOp(call.op) =>
                  /\ result.start_date = for_quarter_in_year(2 * p - 1, y).start_date
                  /\ result.end_date = for_quarter_in_year(2 * p, y).end_date
                  /\ for_quarter_in_year(2 * p, y).start_date =
                         DayAfter(for_quarter_in_year(2 * p - 1, y).end_date)
    /\ (call.op = "for_month_in_year" /\ call.period = 2 /\ result.kind = "range") =>
           /\ result.end_date.month = 2
           /\ result.end_date.day = 29 <=> LeapYear(call.year)
           /\ result.end_date.day = 28 <=> ~ LeapYear(call.year)

\* the second quarter of the completed year before today's, from 1 April
\* to 30 June, the day before the third quarter starts
C30_Witness ==
    /\ call.op = "for_quarter_in_year"
    /\ call.period = 2
    /\ call.year = today.year - 1
    /\ result = Range(date(call.year, 4, 1), date(call.year, 6, 30))
    /\ for_quarter_in_year(3, call.year).start_date = date(call.year, 7, 1)

====
